---- MODULE Spec2Model ----
(***************************************************************************)
(* libfyaml document layer (src/lib/fy-doc.c, src/lib/fy-token.c):         *)
(* the document builder, the alias / merge-key resolver, semantic node     *)
(* comparison and the node mutation API, modelled over an explicit heap    *)
(* of nodes, node pairs, tokens and documents.                             *)
(*                                                                         *)
(* Pointers are heap indices; NULL is 0.  Text is a sequence of byte       *)
(* values.  A token's text is what fy_token_get_text returns for it.       *)
(***************************************************************************)
EXTENDS Integers, Sequences, FiniteSets, TLC

VARIABLES
    heap,       \* nodes, pairs, tokens, documents and the diagnostics
    input,      \* the event stream the parser will deliver to the builder
    phase,      \* "start", "built", "failed", "crashed"
    fyd,        \* the document returned by fy_parse_load_document, or NULL
    ops,        \* number of API calls made on the built document
    last,       \* record describing the last API call and its return value
    qsortTies,  \* how the C library's qsort_r orders elements comparing equal
    uninit      \* what an uninitialised fy_node_pair.parent happens to hold, and
                \* whether a read the program must not make stops the process

vars == <<heap, input, phase, fyd, ops, last, qsortTies, uninit>>

NULL == 0
UNINIT == -1

(***************************************************************************)
(* Byte strings                                                            *)
(***************************************************************************)
\* byte values: '<' = 60, 'a' = 97, 'b' = 98, 'c' = 99, '1'..'5' = 49..53
tEmpty == <<>>
tA == <<97>>
tB == <<98>>
tC == <<99>>
tAB == <<97, 98>>
tMerge == <<60, 60>>
t1 == <<49>>
t2 == <<50>>
t3 == <<51>>
t4 == <<52>>
t5 == <<53>>

Sign(x) == IF x < 0 THEN -1 ELSE IF x > 0 THEN 1 ELSE 0

\* strncmp(a, b, n): the sign of the first difference among the first n bytes
RECURSIVE strncmp(_, _, _)
strncmp(a, b, n) ==
    IF n = 0 THEN 0
    ELSE IF a[1] # b[1] THEN Sign(a[1] - b[1])
    ELSE strncmp(Tail(a), Tail(b), n - 1)

(***************************************************************************)
(* Sequence helpers (the intrusive lists of the C code)                    *)
(***************************************************************************)
IndexOf(s, x) ==
    IF \E i \in 1..Len(s) : s[i] = x
    THEN CHOOSE i \in 1..Len(s) : s[i] = x /\ \A j \in 1..(i - 1) : s[j] # x
    ELSE 0

RemoveAt(s, i) == SubSeq(s, 1, i - 1) \o SubSeq(s, i + 1, Len(s))

ListDel(s, x) == IF IndexOf(s, x) = 0 THEN s ELSE RemoveAt(s, IndexOf(s, x))

\* list_insert_after(mark, x): x becomes the successor of mark
ListInsertAfter(s, mark, x) ==
    LET i == IndexOf(s, mark)
    IN  SubSeq(s, 1, i) \o <<x>> \o SubSeq(s, i + 1, Len(s))

ListInsertBefore(s, mark, x) ==
    LET i == IndexOf(s, mark)
    IN  SubSeq(s, 1, i - 1) \o <<x>> \o SubSeq(s, i, Len(s))

Range(s) == {s[i] : i \in 1..Len(s)}

(***************************************************************************)
(* Tokens (fy-token.c)                                                     *)
(***************************************************************************)
\* fy_token_alloc: a fresh token holds one reference.  td is the tag directive
\* a TAG token refers to (tag.fyt_td); handle_length is tag.handle_length of a
\* TAG token and tag_directive.tag_length of a TAG_DIRECTIVE token; uri_length
\* is tag.suffix_length, respectively tag_directive.uri_length.
\* nref, nunref and stale are history fields, not program state: the calls of
\* fy_token_ref and fy_token_unref made on the live token, and whether the
\* token was used after it was freed.
fy_token_alloc(h, type, text, mark) ==
    [h EXCEPT !.tokens = Append(@, [type |-> type, text |-> text, mark |-> mark,
                                   refs |-> 1, freed |-> FALSE, td |-> NULL,
                                   handle_length |-> 0, uri_length |-> 0,
                                   nref |-> 0, nunref |-> 0, stale |-> FALSE])]

LastToken(h) == Len(h.tokens)

\* a call on a token that is freed already reads freed memory
TokenStale(h, fyt) == [h EXCEPT !.tokens[fyt].stale = TRUE]

\* the release of a tag token's directive: a directive token holds no other token
TokenUnrefDirective(h, fyt_td) ==
    IF fyt_td = NULL THEN h
    ELSE IF h.tokens[fyt_td].freed THEN TokenStale(h, fyt_td)
    ELSE IF h.tokens[fyt_td].refs = 1
         THEN [h EXCEPT !.tokens[fyt_td].freed = TRUE, !.tokens[fyt_td].refs = 0,
                        !.tokens[fyt_td].nunref = @ + 1]
    ELSE [h EXCEPT !.tokens[fyt_td].refs = @ - 1, !.tokens[fyt_td].nunref = @ + 1]

\* a free that leaves the tag token's reference on its directive in place
TokenFreeKeepsDirective(h, fyt) ==
    IF fyt = NULL THEN h
    ELSE [h EXCEPT !.tokens[fyt].freed = TRUE, !.tokens[fyt].refs = 0]

\* fy_token_free: a TAG token drops its reference to the directive first
fy_token_free(h, fyt) ==
    IF fyt = NULL THEN h
    ELSE [(IF h.tokens[fyt].type = "TAG" THEN TokenUnrefDirective(h, h.tokens[fyt].td) ELSE h)
          EXCEPT !.tokens[fyt].freed = TRUE, !.tokens[fyt].refs = 0]

fy_token_ref(h, fyt) ==
    IF fyt = NULL THEN h
    ELSE IF h.tokens[fyt].freed THEN TokenStale(h, fyt)
    ELSE [h EXCEPT !.tokens[fyt].refs = @ + 1, !.tokens[fyt].nref = @ + 1]

fy_token_unref(h, fyt) ==
    IF fyt = NULL THEN h
    ELSE IF h.tokens[fyt].freed THEN TokenStale(h, fyt)
    ELSE IF h.tokens[fyt].refs = 1
         THEN fy_token_free([h EXCEPT !.tokens[fyt].nunref = @ + 1], fyt)
    ELSE [h EXCEPT !.tokens[fyt].refs = @ - 1, !.tokens[fyt].nunref = @ + 1]

fy_token_get_text(h, fyt) == IF fyt = NULL THEN <<>> ELSE h.tokens[fyt].text

fy_token_get_text_length(h, fyt) == Len(fy_token_get_text(h, fyt))

fy_token_start_mark(h, fyt) == IF fyt = NULL THEN NULL ELSE h.tokens[fyt].mark

(***************************************************************************)
(* Nodes and node pairs                                                    *)
(***************************************************************************)
\* fy_node_alloc: memset 0, then type, style = FYNS_ANY and the owning document
fy_node_alloc(h, d, type) ==
    [h EXCEPT !.nodes = Append(@, [type |-> type, style |-> "any", tag |-> NULL,
                                  scalar |-> NULL, seq |-> <<>>, map |-> <<>>,
                                  start |-> NULL, parent |-> NULL, fyd |-> d,
                                  freed |-> FALSE])]

LastNode(h) == Len(h.nodes)

\* fy_node_pair_alloc: key, value and fyd are set; parent is left as malloc gave it
fy_node_pair_alloc(h, d) ==
    [h EXCEPT !.pairs = Append(@, [key |-> NULL, value |-> NULL, parent |-> UNINIT,
                                  fyd |-> d, freed |-> FALSE])]

LastPair(h) == Len(h.pairs)

fy_node_is_scalar(h, fyn) == fyn # NULL /\ h.nodes[fyn].type = "scalar"

fy_node_mapping_item_count(h, fyn) ==
    IF fyn = NULL \/ h.nodes[fyn].type # "mapping" THEN -1 ELSE Len(h.nodes[fyn].map)

\* 0-based position of the pair in the mapping's list, -1 when it is not in it
fy_node_mapping_get_pair_index(h, fyn, fynp) == IndexOf(h.nodes[fyn].map, fynp) - 1

(***************************************************************************)
(* The default mapping comparator and the sort                             *)
(***************************************************************************)
\* The comparator reads fynp->parent.  A NULL parent is dereferenced (a crash);
\* an uninitialised one either crashes as well or is a stray pointer to a
\* mapping that does not hold the pair (index -1): the variable uninit says which.
PairIndexFaults(h, fynp) ==
    \/ h.pairs[fynp].parent = NULL
    \/ h.pairs[fynp].parent = UNINIT /\ uninit = "crash"

PairIndex(h, fynp) ==
    IF h.pairs[fynp].parent \in {NULL, UNINIT} THEN -1
    ELSE fy_node_mapping_get_pair_index(h, h.pairs[fynp].parent, fynp)

\* str_a / str_b of the comparator: [null, text]
SortKeyStr(h, fynp) ==
    LET key == h.pairs[fynp].key
    IN  IF key = NULL THEN [null |-> FALSE, text |-> <<>>]
        ELSE IF fy_node_is_scalar(h, key)
             THEN [null |-> FALSE, text |-> fy_token_get_text(h, h.nodes[key].scalar)]
        ELSE [null |-> TRUE, text |-> <<>>]

\* whether the comparator reaches the index comparison for this couple
SortCmpUsesIndex(h, a, b) ==
    /\ SortKeyStr(h, a).null
    /\ SortKeyStr(h, b).null
    /\ h.nodes[h.pairs[a].key].type = h.nodes[h.pairs[b].key].type

\* the comparison, given str_a / str_b (sa, sb), the key types and the indices
SortCmp(sa, sb, type_a, type_b, idx_a, idx_b) ==
    IF ~sa.null /\ ~sb.null
    THEN strncmp(sa.text, sb.text,
                 IF Len(sa.text) < Len(sb.text) THEN Len(sa.text) ELSE Len(sb.text))
    ELSE IF sa.null /\ ~sb.null THEN -1
    ELSE IF ~sa.null /\ sb.null THEN 1
    ELSE IF type_a # type_b THEN (IF type_a = "mapping" THEN -1 ELSE 1)
    ELSE IF idx_a > idx_b THEN 1 ELSE IF idx_a < idx_b THEN -1 ELSE 0

\* the type of the pair's key, "none" for a NULL key
SortKeyType(h, fynp) ==
    IF h.pairs[fynp].key = NULL THEN "none" ELSE h.nodes[h.pairs[fynp].key].type

fy_node_mapping_sort_cmp_default(h, a, b) ==
    SortCmp(SortKeyStr(h, a), SortKeyStr(h, b), SortKeyType(h, a), SortKeyType(h, b),
            PairIndex(h, a), PairIndex(h, b))

\* qsort_r as a merge sort; for elements that compare equal the C standard
\* leaves the order open: "stable" takes the left run first, "unstable" the right.
\* given the comparator's result c, the merge takes the element of the left run
QTakesLeft(c) == c < 0 \/ (c = 0 /\ qsortTies = "stable")

RECURSIVE QMerge(_, _, _)
QMerge(h, b1, b2) ==
    IF b1 = <<>> THEN b2
    ELSE IF b2 = <<>> THEN b1
    ELSE IF QTakesLeft(fy_node_mapping_sort_cmp_default(h, b1[1], b2[1]))
         THEN <<b1[1]>> \o QMerge(h, Tail(b1), b2)
         ELSE <<b2[1]>> \o QMerge(h, b1, Tail(b2))

RECURSIVE qsort_r(_, _)
qsort_r(h, arr) ==
    IF Len(arr) <= 1 THEN arr
    ELSE LET n1 == Len(arr) \div 2
         IN  QMerge(h, qsort_r(h, SubSeq(arr, 1, n1)),
                       qsort_r(h, SubSeq(arr, n1 + 1, Len(arr))))

\* fy_node_mapping_perform_sort with the default comparator: the sorted pair array
fy_node_mapping_perform_sort(h, fyn_map) == qsort_r(h, h.nodes[fyn_map].map)

\* the sort of this mapping makes the comparator read a parent it must not read:
\* two keys of one non-scalar type end up adjacent, so they are compared
SortFaults(h, fyn_map) ==
    LET m == h.nodes[fyn_map].map
    IN  \E i, j \in 1..Len(m) :
            /\ i # j
            /\ SortCmpUsesIndex(h, m[i], m[j])
            /\ PairIndexFaults(h, m[i])

(***************************************************************************)
(* fy_node_compare                                                         *)
(***************************************************************************)
IsNullNode(h, fyn) ==
    \/ fyn = NULL
    \/ /\ h.nodes[fyn].type = "scalar"
       /\ fy_token_get_text_length(h, h.nodes[fyn].scalar) = 0

\* "eq", "ne", or "fault" when a sort on the way dereferences a bad pair parent
RECURSIVE NodeCompare(_, _, _)
RECURSIVE CompareItems(_, _, _)
RECURSIVE ComparePairs(_, _, _)

\* a comparison of sequences that stops where the first one ends
CompareItemsPrefix(h, s1, s2) ==
    IF s1 = <<>> THEN "eq"
    ELSE IF s2 = <<>> THEN "ne"
    ELSE LET r == NodeCompare(h, s1[1], s2[1])
         IN  IF r # "eq" THEN r ELSE CompareItems(h, Tail(s1), Tail(s2))

\* the while loop over two sequences' items
CompareItems(h, s1, s2) ==
    IF s1 = <<>> \/ s2 = <<>>
    THEN (IF s1 = <<>> /\ s2 = <<>> THEN "eq" ELSE "ne")
    ELSE LET r == NodeCompare(h, s1[1], s2[1])
         IN  IF r # "eq" THEN r ELSE CompareItems(h, Tail(s1), Tail(s2))

\* the for loop over the two sorted pair arrays (of equal length)
ComparePairs(h, p1, p2) ==
    IF p1 = <<>> THEN "eq"
    ELSE LET rk == NodeCompare(h, h.pairs[p1[1]].key, h.pairs[p2[1]].key)
         IN  IF rk # "eq" THEN rk
             ELSE LET rv == NodeCompare(h, h.pairs[p1[1]].value, h.pairs[p2[1]].value)
                  IN  IF rv # "eq" THEN rv ELSE ComparePairs(h, Tail(p1), Tail(p2))

NodeCompare(h, fyn1, fyn2) ==
    IF fyn1 = fyn2 THEN "eq"
    ELSE IF IsNullNode(h, fyn1) /\ IsNullNode(h, fyn2) THEN "eq"
    ELSE IF IsNullNode(h, fyn1) \/ IsNullNode(h, fyn2) THEN "ne"
    ELSE IF h.nodes[fyn1].type # h.nodes[fyn2].type THEN "ne"
    ELSE IF h.nodes[fyn1].type = "sequence"
         THEN CompareItems(h, h.nodes[fyn1].seq, h.nodes[fyn2].seq)
    ELSE IF h.nodes[fyn1].type = "mapping"
         THEN IF fy_node_mapping_item_count(h, fyn1) # fy_node_mapping_item_count(h, fyn2)
              THEN "ne"
              ELSE IF SortFaults(h, fyn1) \/ SortFaults(h, fyn2) THEN "fault"
              ELSE ComparePairs(h, fy_node_mapping_perform_sort(h, fyn1),
                                   fy_node_mapping_perform_sort(h, fyn2))
    ELSE LET x1 == fy_token_get_text(h, h.nodes[fyn1].scalar)
             x2 == fy_token_get_text(h, h.nodes[fyn2].scalar)
         IN  IF Len(x1) # Len(x2) THEN "ne"
             ELSE IF strncmp(x1, x2, Len(x1)) = 0 THEN "eq" ELSE "ne"

fy_node_compare(h, fyn1, fyn2) == NodeCompare(h, fyn1, fyn2) = "eq"

\* fy_node_mapping_lookup_pair: the first pair whose key compares equal, or NULL
RECURSIVE LookupPairIn(_, _, _)
LookupPairIn(h, ps, fyn_key) ==
    IF ps = <<>> THEN NULL
    ELSE IF fy_node_compare(h, h.pairs[ps[1]].key, fyn_key) THEN ps[1]
    ELSE LookupPairIn(h, Tail(ps), fyn_key)

fy_node_mapping_lookup_pair(h, fyn, fyn_key) == LookupPairIn(h, h.nodes[fyn].map, fyn_key)

\* the lookup compares up to and including the first equal key; a fault there aborts
RECURSIVE LookupFaultsIn(_, _, _)
RECURSIVE LookupFaultsFrom(_, _, _, _)
LookupFaultsIn(h, ps, fyn_key) ==
    IF ps = <<>> THEN FALSE
    ELSE LookupFaultsFrom(NodeCompare(h, h.pairs[ps[1]].key, fyn_key), h, ps, fyn_key)

\* given the result r of the comparison with the key of the first pair of ps
LookupFaultsFrom(r, h, ps, fyn_key) ==
    IF r = "fault" THEN TRUE
    ELSE IF r = "eq" THEN FALSE
    ELSE LookupFaultsIn(h, Tail(ps), fyn_key)

LookupFaults(h, fyn, fyn_key) == LookupFaultsIn(h, h.nodes[fyn].map, fyn_key)

fy_node_mapping_key_is_duplicate(h, fyn, fyn_key) ==
    fy_node_mapping_lookup_pair(h, fyn, fyn_key) # NULL

(***************************************************************************)
(* Documents and anchors                                                   *)
(***************************************************************************)
\* crashed: the process was aborted (a failed assert, a bad pointer dereferenced).
\* dupkey is a history field, not program state: the mark of the first loaded key
\* that compared equal to a key already in its mapping.
EmptyHeap == [nodes |-> <<>>, pairs |-> <<>>, tokens |-> <<>>, docs |-> <<>>,
              diag |-> <<>>, crashed |-> FALSE, dupkey |-> NULL]

Abort(h) == [h EXCEPT !.crashed = TRUE]

LastDoc(h) == Len(h.docs)

\* byte values: '!' = 33, ' ' = 32, 'e' = 101, 'f' = 102, 'x' = 120, 'y' = 121, ':' = 58
hBang == <<33>>
hBangBang == <<33, 33>>
hE == <<33, 101, 33>>
hF == <<33, 102, 33>>
pYaml == <<116, 97, 103, 58, 121, 97, 109, 108, 46, 111, 114, 103, 44, 50, 48, 48, 50, 58>>
pX == <<120, 58>>
pY == <<121, 58>>

\* fy_tag_directive_token_handle: the first tag_length bytes of the token's text
fy_tag_directive_token_handle(h, fyt) == SubSeq(h.tokens[fyt].text, 1, h.tokens[fyt].handle_length)

\* fy_tag_directive_token_prefix: the last uri_length bytes of the token's text
fy_tag_directive_token_prefix(h, fyt) ==
    SubSeq(h.tokens[fyt].text, Len(h.tokens[fyt].text) - h.tokens[fyt].uri_length + 1,
           Len(h.tokens[fyt].text))

\* fy_append_tag_directive: a TAG_DIRECTIVE token over the text "handle prefix"
\* is added at the tail of the document state's directive list
fy_append_tag_directive(h, d, handle, prefix) ==
    LET h1 == fy_token_alloc(h, "TAG_DIRECTIVE", handle \o <<32>> \o prefix, NULL)
    IN  [h1 EXCEPT !.tokens[LastToken(h1)].handle_length = Len(handle),
                   !.tokens[LastToken(h1)].uri_length = Len(prefix),
                   !.docs[d].td = Append(@, LastToken(h1))]

\* the document state of a new document: the default directives ! and !!
fy_reset_document_state(h, d) ==
    fy_append_tag_directive(fy_append_tag_directive(h, d, hBang, hBang), d, hBangBang, pYaml)

\* whether the directive is one of the defaults, which a document may override
fy_token_tag_directive_is_overridable(h, fyt_td) ==
    \/ /\ fy_tag_directive_token_handle(h, fyt_td) = hBang
       /\ fy_tag_directive_token_prefix(h, fyt_td) = hBang
    \/ /\ fy_tag_directive_token_handle(h, fyt_td) = hBangBang
       /\ fy_tag_directive_token_prefix(h, fyt_td) = pYaml

\* fy_parse_document_create: no root, an empty anchor list, the document state
\* of the DOCUMENT-START event (td is its list of tag directive tokens)
fy_parse_document_create(h) ==
    fy_reset_document_state(
        [h EXCEPT !.docs = Append(@, [root |-> NULL, anchors |-> <<>>, destroyed |-> FALSE,
                                     td |-> <<>>, parse_error |-> FALSE,
                                     errbuf |-> <<>>, parent |-> NULL,
                                     children |-> <<>>])],
        Len(h.docs) + 1)

\* fy_document_create: an empty document on a parser of its own, sharing the
\* parser's current document state
fy_document_create(h) ==
    fy_reset_document_state(
        [h EXCEPT !.docs = Append(@, [root |-> NULL, anchors |-> <<>>, destroyed |-> FALSE,
                                     td |-> <<>>, parse_error |-> FALSE,
                                     errbuf |-> <<>>, parent |-> NULL,
                                     children |-> <<>>])],
        Len(h.docs) + 1)

\* fy_document_state_lookup_tag_directive: the first directive of the list tds
\* whose handle is `handle`, or NULL
RECURSIVE LookupTagDirectiveIn(_, _, _)
LookupTagDirectiveIn(h, tds, handle) ==
    IF tds = <<>> THEN NULL
    ELSE IF fy_tag_directive_token_handle(h, tds[1]) = handle THEN tds[1]
    ELSE LookupTagDirectiveIn(h, Tail(tds), handle)

fy_document_state_lookup_tag_directive(h, d, handle) ==
    LookupTagDirectiveIn(h, h.docs[d].td, handle)

fy_document_tag_directive_lookup(h, d, handle) ==
    IF d = NULL THEN NULL ELSE LookupTagDirectiveIn(h, h.docs[d].td, handle)

\* fy_document_tag_directive_add: [h, r]; the handle must not exist
fy_document_tag_directive_add(h, d, handle, prefix) ==
    IF d = NULL THEN [h |-> h, r |-> -1]
    ELSE IF fy_document_tag_directive_lookup(h, d, handle) # NULL THEN [h |-> h, r |-> -1]
    ELSE [h |-> fy_append_tag_directive(h, d, handle, prefix), r |-> 0]

\* a removal that does not look at the references held on the directive
TagDirectiveRemoveAlways(h, d, fyt) ==
    IF fyt = NULL THEN [h |-> h, r |-> -1]
    ELSE [h |-> fy_token_unref([h EXCEPT !.docs[d].td = ListDel(@, fyt)], fyt), r |-> 0]

\* the directive fyt found for the handle is removed when the list holds the
\* only reference to it
TagDirectiveRemoveFound(h, d, fyt) ==
    IF fyt = NULL \/ h.tokens[fyt].refs # 1 THEN [h |-> h, r |-> -1]
    ELSE [h |-> fy_token_unref([h EXCEPT !.docs[d].td = ListDel(@, fyt)], fyt), r |-> 0]

\* fy_document_tag_directive_remove: [h, r]
fy_document_tag_directive_remove(h, d, handle) ==
    IF d = NULL THEN [h |-> h, r |-> -1]
    ELSE TagDirectiveRemoveFound(h, d, fy_document_tag_directive_lookup(h, d, handle))

\* fy_error_report: the message and the mark it points at
fy_error_report(h, msg, mark) == [h EXCEPT !.diag = Append(@, [msg |-> msg, mark |-> mark])]

\* the NULL struct fy_anchor pointer
NoAnchor == [anchor |-> NULL, fyn |-> NULL]

\* fy_document_lookup_anchor: the first entry of the list with that text
RECURSIVE LookupAnchorIn(_, _, _)
LookupAnchorIn(h, al, text) ==
    IF al = <<>> THEN NoAnchor
    ELSE IF fy_token_get_text(h, al[1].anchor) = text THEN al[1]
    ELSE LookupAnchorIn(h, Tail(al), text)

fy_document_lookup_anchor(h, d, text) == LookupAnchorIn(h, h.docs[d].anchors, text)

fy_document_lookup_anchor_by_token(h, d, anchor) ==
    IF d = NULL \/ anchor = NULL THEN NoAnchor
    ELSE fy_document_lookup_anchor(h, d, fy_token_get_text(h, anchor))

fy_document_lookup_anchor_by_node(h, d, fyn) ==
    LET al == h.docs[d].anchors
    IN  IF \E i \in 1..Len(al) : al[i].fyn = fyn
        THEN al[CHOOSE i \in 1..Len(al) :
                    al[i].fyn = fyn /\ \A j \in 1..(i - 1) : al[j].fyn # fyn]
        ELSE NoAnchor

\* a registration that does not look the name up
RegisterAnchorAlways(h, d, fyn, anchor) ==
    [h |-> [fy_token_ref(h, anchor)
            EXCEPT !.docs[d].anchors = <<[anchor |-> anchor, fyn |-> fyn]>> \o @],
     r |-> 0]

\* fy_parse_document_register_anchor: [h, rc]; the list add is at the head
fy_parse_document_register_anchor(h, d, fyn, anchor) ==
    IF fy_document_lookup_anchor_by_token(h, d, anchor) # NoAnchor
    THEN [h |-> fy_error_report(h, "duplicate anchor", fy_token_start_mark(h, anchor)),
          r |-> -1]
    ELSE LET h1 == fy_token_ref(h, anchor)
         IN  [h |-> [h1 EXCEPT !.docs[d].anchors = <<[anchor |-> anchor, fyn |-> fyn]>> \o @],
              r |-> 0]

(***************************************************************************)
(* fy_node_free, fy_node_pair_free                                         *)
(***************************************************************************)
\* a free that leaves the anchors located on the node in the list
DropAnchorsNone(h, d, al, fyn) == h

\* the anchors located on the node are unlinked and destroyed
RECURSIVE DropAnchorsOn(_, _, _, _)
DropAnchorsOn(h, d, al, fyn) ==
    IF al = <<>> THEN [h EXCEPT !.docs[d].anchors = <<>>]
    ELSE LET rest == DropAnchorsOn(h, d, Tail(al), fyn)
         IN  IF al[1].fyn = fyn
             THEN fy_token_unref(rest, al[1].anchor)
             ELSE [rest EXCEPT !.docs[d].anchors = <<al[1]>> \o @]

RECURSIVE fy_node_free(_, _)
RECURSIVE fy_node_pair_free(_, _)
RECURSIVE FreeNodeList(_, _)
RECURSIVE FreePairList(_, _)
RECURSIVE FreeNodeContent(_, _)

FreeNodeList(h, ns) ==
    IF ns = <<>> THEN h ELSE FreeNodeList(fy_node_free(h, ns[1]), Tail(ns))

FreePairList(h, ps) ==
    IF ps = <<>> THEN h ELSE FreePairList(fy_node_pair_free(h, ps[1]), Tail(ps))

fy_node_pair_free(h, fynp) ==
    IF fynp = NULL THEN h
    ELSE LET h1 == fy_node_free(h, h.pairs[fynp].key)
             h2 == fy_node_free(h1, h.pairs[fynp].value)
         IN  [h2 EXCEPT !.pairs[fynp].freed = TRUE]

\* the switch of fy_node_free on the type of the node n: its scalar token, or
\* its items or pairs and then its start token
FreeNodeContent(h, n) ==
    IF n.type = "scalar" THEN fy_token_unref(h, n.scalar)
    ELSE IF n.type = "sequence" THEN fy_token_unref(FreeNodeList(h, n.seq), n.start)
    ELSE fy_token_unref(FreePairList(h, n.map), n.start)

fy_node_free(h, fyn) ==
    IF fyn = NULL THEN h
    ELSE LET n  == h.nodes[fyn]
             h1 == DropAnchorsOn(h, n.fyd, h.docs[n.fyd].anchors, fyn)
             h2 == fy_token_unref(h1, n.tag)
             h3 == FreeNodeContent(h2, n)
         IN  [h3 EXCEPT !.nodes[fyn].freed = TRUE, !.nodes[fyn].tag = NULL,
                        !.nodes[fyn].scalar = NULL, !.nodes[fyn].seq = <<>>,
                        !.nodes[fyn].map = <<>>]

(***************************************************************************)
(* fy_node_copy, fy_node_copy_to_scalar                                    *)
(***************************************************************************)
RECURSIVE fy_node_copy(_, _, _)
RECURSIVE CopyItems(_, _, _, _)
RECURSIVE CopyPairs(_, _, _, _)
RECURSIVE CopyContent(_, _, _, _)

\* the loop over the source sequence: each copy is added at the tail of fyn
CopyItems(h, d, fyn, items) ==
    IF items = <<>> THEN h
    ELSE LET c == fy_node_copy(h, d, items[1])
         IN  CopyItems([c.h EXCEPT !.nodes[fyn].seq = Append(@, c.r)], d, fyn, Tail(items))

\* the loop over the source mapping: a new pair holding copies of key and value
CopyPairs(h, d, fyn, ps) ==
    IF ps = <<>> THEN h
    ELSE LET h1 == fy_node_pair_alloc(h, d)
             np == LastPair(h1)
             ck == fy_node_copy(h1, d, h.pairs[ps[1]].key)
             cv == fy_node_copy(ck.h, d, h.pairs[ps[1]].value)
         IN  CopyPairs([cv.h EXCEPT !.pairs[np].key = ck.r, !.pairs[np].value = cv.r,
                                    !.nodes[fyn].map = Append(@, np)],
                       d, fyn, Tail(ps))

\* "drop an anchor to the copy": the copy takes the source's anchor name unless
\* the destination document already has an anchor of that name
CopyAnchor(h, d, fyn, fyn_from) ==
    LET fya_from == fy_document_lookup_anchor_by_node(h, h.nodes[fyn_from].fyd, fyn_from)
    IN  IF fya_from = NoAnchor THEN h
        ELSE IF fy_document_lookup_anchor_by_token(h, d, fya_from.anchor) = NoAnchor
             THEN fy_parse_document_register_anchor(h, d, fyn, fya_from.anchor).h
        ELSE h

\* the switch of fy_node_copy on the type of the source node from
CopyContent(h, d, fyn, from) ==
    IF from.type = "scalar"
    THEN [fy_token_ref(h, from.scalar) EXCEPT !.nodes[fyn].scalar = from.scalar]
    ELSE IF from.type = "sequence" THEN CopyItems(h, d, fyn, from.seq)
    ELSE CopyPairs(h, d, fyn, from.map)

fy_node_copy(h, d, fyn_from) ==
    IF d = NULL \/ fyn_from = NULL THEN [h |-> h, r |-> NULL]
    ELSE LET from == h.nodes[fyn_from]
             h1  == fy_node_alloc(h, d, from.type)
             fyn == LastNode(h1)
             h2  == [fy_token_ref(h1, from.tag) EXCEPT !.nodes[fyn].tag = from.tag,
                                                       !.nodes[fyn].style = from.style]
             h3  == CopyContent(h2, d, fyn, from)
         IN  [h |-> CopyAnchor(h3, d, fyn, fyn_from), r |-> fyn]

\* the move of fy_node_copy_to_scalar, given the result c of fy_node_copy: the
\* content of the copy goes to fyn_to and the emptied copy is freed
CopyToScalarMove(c, fyn_to) ==
    IF c.r = NULL THEN [h |-> c.h, r |-> -1]
    ELSE LET fyn == c.h.nodes[c.r]
             h1 == fy_token_unref(fy_token_unref(c.h, c.h.nodes[fyn_to].tag),
                                  c.h.nodes[fyn_to].scalar)
             h2 == [fy_token_ref(h1, fyn.tag) EXCEPT
                        !.nodes[fyn_to].type = fyn.type,
                        !.nodes[fyn_to].tag = fyn.tag,
                        !.nodes[fyn_to].style = fyn.style,
                        !.nodes[fyn_to].scalar = fyn.scalar,
                        !.nodes[fyn_to].seq = fyn.seq,
                        !.nodes[fyn_to].map = fyn.map,
                        !.nodes[c.r].scalar = NULL,
                        !.nodes[c.r].seq = <<>>,
                        !.nodes[c.r].map = <<>>]
         IN  [h |-> fy_node_free(h2, c.r), r |-> 0]

\* the alias node fyn_to becomes the copy: its type, tag, style and content
fy_node_copy_to_scalar(h, d, fyn_to, fyn_from) ==
    CopyToScalarMove(fy_node_copy(h, d, fyn_from), fyn_to)

(***************************************************************************)
(* fy_resolve_parent_node                                                  *)
(***************************************************************************)
RECURSIVE fy_resolve_parent_node(_, _, _)
RECURSIVE ResolveParentItems(_, _, _)
RECURSIVE ResolveParentPairs(_, _, _)

ResolveParentItems(h, items, fyn) ==
    IF items = <<>> THEN h
    ELSE ResolveParentItems(fy_resolve_parent_node(h, items[1], fyn), Tail(items), fyn)

\* the parent of the key is always NULL
ResolveParentPairs(h, ps, fyn) ==
    IF ps = <<>> THEN h
    ELSE LET h1 == fy_resolve_parent_node(h, h.pairs[ps[1]].key, NULL)
             h2 == fy_resolve_parent_node(h1, h.pairs[ps[1]].value, fyn)
         IN  ResolveParentPairs([h2 EXCEPT !.pairs[ps[1]].parent = fyn], Tail(ps), fyn)

fy_resolve_parent_node(h, fyn, fyn_parent) ==
    IF fyn = NULL THEN h
    ELSE LET h1 == [h EXCEPT !.nodes[fyn].parent = fyn_parent]
         IN  IF h.nodes[fyn].type = "sequence" THEN ResolveParentItems(h1, h.nodes[fyn].seq, fyn)
             ELSE IF h.nodes[fyn].type = "mapping" THEN ResolveParentPairs(h1, h.nodes[fyn].map, fyn)
             ELSE h1

(***************************************************************************)
(* The document builder                                                    *)
(***************************************************************************)
\* An event of the parser: type, the texts of its anchor and tag tokens (<<>>
\* when it has none), the text and style of a scalar, and whether a collection
\* has a start token (it has none when it was started implicitly).
Event(type, anchor, tag, text, style, start) ==
    [type |-> type, anchor |-> anchor, tag |-> tag, text |-> text, style |-> style,
     start |-> start]

\* fy_node_get_start_mark: the mark of the node's first token, NULL when it has none
RECURSIVE fy_node_get_start_mark(_, _)
fy_node_get_start_mark(h, fyn) ==
    IF fyn = NULL THEN NULL
    ELSE LET n == h.nodes[fyn]
         IN  IF n.type = "scalar" THEN fy_token_start_mark(h, n.scalar)
             ELSE IF fy_token_start_mark(h, n.start) # NULL THEN fy_token_start_mark(h, n.start)
             ELSE IF n.type = "sequence"
                  THEN (IF n.seq = <<>> THEN NULL ELSE fy_node_get_start_mark(h, n.seq[1]))
             ELSE (IF n.map = <<>> THEN NULL
                   ELSE fy_node_get_start_mark(h, h.pairs[n.map[1]].key))

\* the tag token moves from the event to the node
LoadTag(h, fyn, ev, mark) ==
    IF ev.tag = <<>> THEN h
    ELSE LET h1 == fy_token_alloc(h, "TAG", ev.tag, mark)
         IN  [h1 EXCEPT !.nodes[fyn].tag = LastToken(h1)]

\* the event is recycled after the registration reg: its reference is dropped
LoadAnchorRecycle(reg, anchor) == [h |-> fy_token_unref(reg.h, anchor), r |-> reg.r]

\* the anchor token stays with the event: the registry takes its own reference
\* and the event's one is dropped when the event is recycled
LoadAnchor(h, d, fyn, ev, mark) ==
    IF ev.anchor = <<>> THEN [h |-> h, r |-> 0]
    ELSE LET h1 == fy_token_alloc(h, "ANCHOR", ev.anchor, mark)
         IN  LoadAnchorRecycle(fy_parse_document_register_anchor(h1, d, fyn, LastToken(h1)),
                               LastToken(h1))

LoadResult(h, rc, fyn, pos) == [h |-> h, rc |-> rc, fyn |-> fyn, pos |-> pos]

\* after the anchor registration a of a new node: the node is freed when it
\* failed; the start token of a collection is taken from the event
LoadAnchored(a, fyn, ev, pos) ==
    IF a.r # 0 THEN LoadResult(fy_node_free(a.h, fyn), a.r, NULL, pos + 1)
    ELSE IF ev.type \in {"SEQUENCE_START", "MAPPING_START"} /\ ev.start
         THEN LET h3 == fy_token_alloc(a.h, "START", <<>>, pos)
              IN  LoadResult([h3 EXCEPT !.nodes[fyn].start = LastToken(h3)], 0, fyn, pos + 1)
    ELSE LoadResult(a.h, 0, fyn, pos + 1)

fy_parse_document_load_scalar(h, d, evs, pos) ==
    LET ev  == evs[pos]
        h1  == fy_node_alloc(h, d, "scalar")
        fyn == LastNode(h1)
    IN  IF ev.type = "SCALAR"
        THEN LET h2 == LoadTag([h1 EXCEPT !.nodes[fyn].style = ev.style], fyn, ev, pos)
                 h3 == fy_token_alloc(h2, "SCALAR", ev.text, pos)
                 h4 == [h3 EXCEPT !.nodes[fyn].scalar = LastToken(h3)]
             IN  LoadAnchored(LoadAnchor(h4, d, fyn, ev, pos), fyn, ev, pos)
        ELSE LET h2 == fy_token_alloc(h1, "ALIAS", ev.anchor, pos)
             IN  LoadResult([h2 EXCEPT !.nodes[fyn].style = "alias",
                                       !.nodes[fyn].scalar = LastToken(h2)],
                            0, fyn, pos + 1)

\* the first position at or after pos whose event carries a token of its own
RECURSIVE FirstTokenPos(_, _)
FirstTokenPos(evs, pos) ==
    IF pos > Len(evs) THEN NULL
    ELSE IF evs[pos].start THEN pos
    ELSE FirstTokenPos(evs, pos + 1)

RECURSIVE fy_parse_document_load_node(_, _, _, _)
RECURSIVE LoadSequenceLoop(_, _, _, _, _)
RECURSIVE LoadMappingLoop(_, _, _, _, _)
RECURSIVE LoadMappingKey(_, _, _, _, _, _, _)
RECURSIVE LoadSequenceItems(_, _, _)
RECURSIVE LoadMappingPairs(_, _, _)

\* the common head of load_sequence and load_mapping: node, style, tag, anchor and
\* start token; -1 in fyn's place when the anchor is a duplicate
LoadCollectionHead(h, d, evs, pos, type) ==
    LET ev  == evs[pos]
        h1  == fy_node_alloc(h, d, type)
        fyn == LastNode(h1)
        h2  == LoadTag([h1 EXCEPT !.nodes[fyn].style = IF ev.start THEN "flow" ELSE "block"],
                       fyn, ev, pos)
    IN  LoadAnchored(LoadAnchor(h2, d, fyn, ev, pos), fyn, ev, pos)

\* the loop of load_sequence and load_mapping left because no event came: the
\* end token is read from the event fetched last, which was recycled; the read
\* finds nothing, or the program faults on what it finds (uninit says which)
LoadStaleEvent(h) == IF uninit = "crash" THEN Abort(h) ELSE h

\* the while loop of fy_parse_document_load_sequence; pos is the next event to fetch
LoadSequenceLoop(h, d, evs, pos, fyn) ==
    IF pos > Len(evs) THEN LoadResult(LoadStaleEvent(h), 0, fyn, pos)
    ELSE IF evs[pos].type = "SEQUENCE_END" THEN LoadResult(h, 0, fyn, pos + 1)
    ELSE LET it == fy_parse_document_load_node(h, d, evs, pos)
         IN  IF it.h.crashed THEN it
             ELSE IF it.rc # 0 THEN LoadResult(fy_node_free(it.h, fyn), it.rc, NULL, it.pos)
             ELSE LoadSequenceLoop([it.h EXCEPT !.nodes[fyn].seq = Append(@, it.fyn)],
                                   d, evs, it.pos, fyn)

\* the loop follows the head hd unless the head failed
LoadSequenceItems(hd, d, evs) ==
    IF hd.rc # 0 THEN hd ELSE LoadSequenceLoop(hd.h, d, evs, hd.pos, hd.fyn)

fy_parse_document_load_sequence(h, d, evs, pos) ==
    LoadSequenceItems(LoadCollectionHead(h, d, evs, pos, "sequence"), d, evs)

\* the duplicate test of fy_parse_document_load_mapping
LoadKeyIsDuplicate(h, fyn, fyn_key) == fy_node_mapping_key_is_duplicate(h, fyn, fyn_key)

\* the history field dupkey takes the mark of the first key that is loaded
\* while an equal key is in its mapping
LoadNoteDuplicate(h, fyn, fyn_key, mark) ==
    IF h.dupkey = NULL /\ LookupPairIn(h, h.nodes[fyn].map, fyn_key) # NULL
    THEN [h EXCEPT !.dupkey = mark]
    ELSE h

\* err_out of load_mapping: the pair item, the key and the mapping are freed
LoadMappingFail(h, rc, fynp_item, fyn_key, fyn, pos) ==
    LoadResult(fy_node_free(fy_node_free(fy_node_pair_free(h, fynp_item), fyn_key), fyn),
               rc, NULL, pos)

\* the while loop of fy_parse_document_load_mapping
LoadMappingLoop(h, d, evs, pos, fyn) ==
    IF pos > Len(evs) THEN LoadResult(LoadStaleEvent(h), 0, fyn, pos)
    ELSE IF evs[pos].type = "MAPPING_END" THEN LoadResult(h, 0, fyn, pos + 1)
    ELSE LET h1 == fy_node_pair_alloc(h, d)
             np == LastPair(h1)
             k  == fy_parse_document_load_node(h1, d, evs, pos)
         IN  IF k.h.crashed THEN k
             ELSE IF k.fyn = NULL THEN LoadResult(Abort(k.h), -1, NULL, k.pos)   \* assert(fyn_key)
             ELSE IF LookupFaults(k.h, fyn, k.fyn) THEN LoadResult(Abort(k.h), -1, NULL, k.pos)
             ELSE LoadMappingKey(LoadNoteDuplicate(k.h, fyn, k.fyn, FirstTokenPos(evs, pos)),
                                 d, evs, fyn, np, k.fyn, k.pos)

\* the rest of an iteration of the loop, the key fyn_key being loaded: the
\* duplicate test, then the value
LoadMappingKey(h, d, evs, fyn, fynp_item, fyn_key, pos) ==
    IF LoadKeyIsDuplicate(h, fyn, fyn_key)
    THEN IF fy_node_get_start_mark(h, fyn_key) = NULL
         THEN LoadResult(Abort(h), -1, NULL, pos)                             \* assert(fym)
         ELSE LoadMappingFail(fy_error_report(h, "duplicate key",
                                              fy_node_get_start_mark(h, fyn_key)),
                              -1, fynp_item, fyn_key, fyn, pos)
    ELSE IF pos > Len(evs)
         THEN LoadMappingFail(fy_error_report(h, "missing mapping value", NULL),
                              -1, fynp_item, fyn_key, fyn, pos)
    ELSE LET v == fy_parse_document_load_node(h, d, evs, pos)
         IN  IF v.h.crashed THEN v
             ELSE IF v.rc # 0 THEN LoadMappingFail(v.h, v.rc, fynp_item, fyn_key, fyn, v.pos)
             ELSE LoadMappingLoop([v.h EXCEPT !.pairs[fynp_item].key = fyn_key,
                                              !.pairs[fynp_item].value = v.fyn,
                                              !.nodes[fyn].map = Append(@, fynp_item)],
                                  d, evs, v.pos, fyn)

\* the loop follows the head hd unless the head failed
LoadMappingPairs(hd, d, evs) ==
    IF hd.rc # 0 THEN hd ELSE LoadMappingLoop(hd.h, d, evs, hd.pos, hd.fyn)

fy_parse_document_load_mapping(h, d, evs, pos) ==
    LoadMappingPairs(LoadCollectionHead(h, d, evs, pos, "mapping"), d, evs)

fy_parse_document_load_node(h, d, evs, pos) ==
    IF pos > Len(evs)
    THEN LoadResult(fy_error_report(h, "premature end of event stream", NULL), -1, NULL, pos)
    ELSE IF evs[pos].type \in {"ALIAS", "SCALAR"} THEN fy_parse_document_load_scalar(h, d, evs, pos)
    ELSE IF evs[pos].type = "SEQUENCE_START" THEN fy_parse_document_load_sequence(h, d, evs, pos)
    ELSE IF evs[pos].type = "MAPPING_START" THEN fy_parse_document_load_mapping(h, d, evs, pos)
    ELSE LoadResult(fy_error_report(h, "bad event", pos), -1, NULL, pos + 1)

fy_parse_document_load_end(h, evs, pos) ==
    IF pos > Len(evs)
    THEN [h |-> fy_error_report(h, "premature end of event stream", NULL), rc |-> -1]
    ELSE IF evs[pos].type # "DOCUMENT_END"
         THEN [h |-> fy_error_report(h, "bad event", pos), rc |-> -1]
    ELSE [h |-> h, rc |-> 0]

\* fy_parse_document_destroy: the root is freed, then every anchor left
RECURSIVE UnrefAnchors(_, _)
UnrefAnchors(h, al) ==
    IF al = <<>> THEN h ELSE UnrefAnchors(fy_token_unref(h, al[1].anchor), Tail(al))

\* the anchors that are left when the root is freed
DestroyAnchors(h, d) ==
    [UnrefAnchors(h, h.docs[d].anchors) EXCEPT !.docs[d].root = NULL,
                                               !.docs[d].anchors = <<>>,
                                               !.docs[d].destroyed = TRUE]

fy_parse_document_destroy(h, d) ==
    IF d = NULL THEN h
    ELSE DestroyAnchors(fy_node_free(h, h.docs[d].root), d)

(***************************************************************************)
(* The resolver: aliases and merge keys                                    *)
(***************************************************************************)
fy_node_is_alias(h, fyn) ==
    fyn # NULL /\ h.nodes[fyn].type = "scalar" /\ h.nodes[fyn].style = "alias"

\* an alias resolution that lets an undefined anchor pass
ResolveAliasLenient(h, d, fyn) ==
    LET fya == fy_document_lookup_anchor_by_token(h, d, h.nodes[fyn].scalar)
    IN  IF fya = NoAnchor THEN [h |-> h, r |-> 0]
        ELSE fy_node_copy_to_scalar(h, d, fyn, fya.fyn)

\* the copy made for the alias, c being the result of the copy: an alias that
\* is the first item of the copy is resolved in its turn
ResolveAliasInside(c, d, fyn) ==
    IF c.r # 0 \/ c.h.nodes[fyn].type # "sequence" \/ c.h.nodes[fyn].seq = <<>> THEN c
    ELSE IF ~fy_node_is_alias(c.h, c.h.nodes[fyn].seq[1]) THEN c
    ELSE ResolveAliasLenient(c.h, d, c.h.nodes[fyn].seq[1])

\* an alias resolution that goes on into the copy it has made
ResolveAliasDeeper(h, d, fyn) ==
    ResolveAliasInside(ResolveAliasLenient(h, d, fyn), d, fyn)

\* [h, r]
fy_resolve_alias(h, d, fyn) ==
    LET fya == fy_document_lookup_anchor_by_token(h, d, h.nodes[fyn].scalar)
    IN  IF fya = NoAnchor
        THEN [h |-> fy_error_report(h, "invalid alias",
                                    fy_token_start_mark(h, h.nodes[fyn].scalar)),
              r |-> -1]
        ELSE fy_node_copy_to_scalar(h, d, fyn, fya.fyn)

fy_node_pair_is_merge_key(h, fynp) ==
    LET fyn == h.pairs[fynp].key
    IN  /\ fyn # NULL
        /\ h.nodes[fyn].type = "scalar"
        /\ h.nodes[fyn].style = "plain"
        /\ fy_token_get_text(h, h.nodes[fyn].scalar) = tMerge

\* the anchored mapping an alias node refers to, or NULL
fy_alias_get_merge_mapping(h, d, fyn) ==
    IF ~fy_node_is_alias(h, fyn) THEN NULL
    ELSE LET fya == fy_document_lookup_anchor_by_token(h, d, h.nodes[fyn].scalar)
         IN  IF fya = NoAnchor THEN NULL
             ELSE IF h.nodes[fya.fyn].type # "mapping" THEN NULL
             ELSE fya.fyn

fy_node_pair_is_valid_merge_key(h, d, fynp) ==
    LET fyn == h.pairs[fynp].value
    IN  /\ fyn # NULL
        /\ \/ fy_alias_get_merge_mapping(h, d, fyn) # NULL
           \/ /\ h.nodes[fyn].type = "sequence"
              /\ \A i \in 1..Len(h.nodes[fyn].seq) :
                     fy_alias_get_merge_mapping(h, d, h.nodes[fyn].seq[i]) # NULL

\* the test that keeps a key already in the target from being overridden
PopulateKeyIsDuplicate(h, fyn, fyn_key) == fy_node_mapping_key_is_duplicate(h, fyn, fyn_key)

\* a link at the tail of the target instead
PopulateLinkAtTail(s, fynp, fynpn) == Append(s, fynpn)

\* where the copy of a pair of the merged mapping is linked into the target
PopulateLink(s, fynp, fynpn) == ListInsertAfter(s, fynp, fynpn)

\* the new pair fynpn takes the copy cv of the value and the copy of the key
NewPairSet(cv, fynpn, key) ==
    [cv.h EXCEPT !.pairs[fynpn].key = key, !.pairs[fynpn].value = cv.r]

\* the value is copied after the key, whose copy is ck
NewPairCopyValue(ck, d, fynpn, value) ==
    NewPairSet(fy_node_copy(ck.h, d, value), fynpn, ck.r)

\* the key, then the value, are copied into the new pair fynpn
NewPairCopyKey(h, d, fynpn, key, value) ==
    NewPairCopyValue(fy_node_copy(h, d, key), d, fynpn, value)

\* the loop of fy_resolve_merge_key_populate over the pairs ps of the merged mapping
RECURSIVE PopulateLoop(_, _, _, _, _)
PopulateLoop(h, d, fyn, fynp, ps) ==
    IF ps = <<>> \/ h.crashed THEN h
    ELSE IF LookupFaults(h, fyn, h.pairs[ps[1]].key) THEN Abort(h)
    ELSE IF PopulateKeyIsDuplicate(h, fyn, h.pairs[ps[1]].key)
         THEN PopulateLoop(h, d, fyn, fynp, Tail(ps))
    ELSE LET h1 == fy_node_pair_alloc(h, d)
             np == LastPair(h1)
             h2 == NewPairCopyKey(h1, d, np, h.pairs[ps[1]].key, h.pairs[ps[1]].value)
         IN  PopulateLoop([h2 EXCEPT !.nodes[fyn].map = PopulateLink(@, fynp, np)],
                          d, fyn, fynp, Tail(ps))

fy_resolve_merge_key_populate(h, d, fyn, fynp, fynm) ==
    PopulateLoop(h, d, fyn, fynp, h.nodes[fynm].map)

\* the loop of fy_resolve_merge_key over the items of a merge sequence
RECURSIVE MergeSequenceLoop(_, _, _, _, _)

\* the same loop walking the sequence from its last item to its first
RECURSIVE MergeSequenceBackwards(_, _, _, _, _)
MergeSequenceBackwards(h, d, fyn, fynp, items) ==
    IF items = <<>> \/ h.crashed THEN h
    ELSE MergeSequenceBackwards(
             fy_resolve_merge_key_populate(h, d, fyn, fynp,
                 fy_alias_get_merge_mapping(h, d, items[Len(items)])),
             d, fyn, fynp, SubSeq(items, 1, Len(items) - 1))

MergeSequenceLoop(h, d, fyn, fynp, items) ==
    IF items = <<>> \/ h.crashed THEN h
    ELSE MergeSequenceLoop(
             fy_resolve_merge_key_populate(h, d, fyn, fynp,
                                           fy_alias_get_merge_mapping(h, d, items[1])),
             d, fyn, fynp, Tail(items))

\* [h, r]
fy_resolve_merge_key(h, d, fyn, fynp) ==
    LET fynv == h.pairs[fynp].value
    IN  IF ~fy_node_pair_is_valid_merge_key(h, d, fynp)
        THEN IF fy_node_get_start_mark(h, fynv) = NULL
             THEN [h |-> Abort(h), r |-> -1]
             ELSE [h |-> fy_error_report(h, "invalid merge key value",
                                         fy_node_get_start_mark(h, fynv)),
                   r |-> -1]
        ELSE IF fy_alias_get_merge_mapping(h, d, fynv) # NULL
             THEN [h |-> fy_resolve_merge_key_populate(h, d, fyn, fynp,
                                                       fy_alias_get_merge_mapping(h, d, fynv)),
                   r |-> 0]
        ELSE [h |-> MergeSequenceLoop(h, d, fyn, fynp, h.nodes[fynv].seq), r |-> 0]

RECURSIVE fy_resolve_anchor_node(_, _, _)
RECURSIVE ResolveItems(_, _, _, _)
RECURSIVE ResolvePairs(_, _, _, _, _)
RECURSIVE ResolveMerged(_, _, _, _, _)

FirstRc(ret_rc, rc) == IF rc # 0 /\ ret_rc = 0 THEN rc ELSE ret_rc

\* a merge pair whose merge succeeded is unlinked and freed
RemoveMergePair(h, fyn, fynp) ==
    fy_node_pair_free([h EXCEPT !.nodes[fyn].map = ListDel(@, fynp)], fynp)

ResolveItems(h, d, items, ret_rc) ==
    IF items = <<>> \/ h.crashed THEN [h |-> h, r |-> ret_rc]
    ELSE LET x == fy_resolve_anchor_node(h, d, items[1])
         IN  ResolveItems(x.h, d, Tail(items), FirstRc(ret_rc, x.r))

\* a loop that removes the merge pair whether or not its merge succeeded
ResolveMergedAlways(m, d, fyn, ps, ret_rc) ==
    ResolvePairs(IF ~m.h.crashed THEN RemoveMergePair(m.h, fyn, ps[1]) ELSE m.h,
                 d, fyn, Tail(ps), FirstRc(ret_rc, m.r))

\* after the merge m of the merge pair ps[1]: the pair is removed when the merge
\* succeeded, and the loop goes on with the pair that followed it
ResolveMerged(m, d, fyn, ps, ret_rc) ==
    ResolvePairs(IF m.r = 0 /\ ~m.h.crashed THEN RemoveMergePair(m.h, fyn, ps[1]) ELSE m.h,
                 d, fyn, Tail(ps), FirstRc(ret_rc, m.r))

\* the pairs are visited through a next pointer taken before the pair is
\* processed: pairs linked in by a merge are not visited
ResolvePairs(h, d, fyn, ps, ret_rc) ==
    IF ps = <<>> \/ h.crashed THEN [h |-> h, r |-> ret_rc]
    ELSE IF fy_node_pair_is_merge_key(h, ps[1])
         THEN ResolveMerged(fy_resolve_merge_key(h, d, fyn, ps[1]), d, fyn, ps, ret_rc)
    ELSE LET k == fy_resolve_anchor_node(h, d, h.pairs[ps[1]].key)
             v == fy_resolve_anchor_node(k.h, d, h.pairs[ps[1]].value)
         IN  ResolvePairs(v.h, d, fyn, Tail(ps), FirstRc(FirstRc(ret_rc, k.r), v.r))

fy_resolve_anchor_node(h, d, fyn) ==
    IF fyn = NULL THEN [h |-> h, r |-> 0]
    ELSE IF fy_node_is_alias(h, fyn) THEN fy_resolve_alias(h, d, fyn)
    ELSE IF h.nodes[fyn].type = "sequence" THEN ResolveItems(h, d, h.nodes[fyn].seq, 0)
    ELSE IF h.nodes[fyn].type = "mapping" THEN ResolvePairs(h, d, fyn, h.nodes[fyn].map, 0)
    ELSE [h |-> h, r |-> 0]

\* fy_document_resolve without the second parent resolution
ResolveAnchorsOnly(h, d) ==
    IF d = NULL THEN [h |-> h, r |-> 0] ELSE fy_resolve_anchor_node(h, d, h.docs[d].root)

\* "redo parent resolution", x being the result of the anchor resolution
ResolveRedoParents(x, d) ==
    IF x.h.crashed THEN x
    ELSE [h |-> fy_resolve_parent_node(x.h, x.h.docs[d].root, NULL), r |-> x.r]

\* [h, r]: anchors and merge keys, then "redo parent resolution"
fy_document_resolve(h, d) ==
    IF d = NULL THEN [h |-> h, r |-> 0]
    ELSE ResolveRedoParents(fy_resolve_anchor_node(h, d, h.docs[d].root), d)

(***************************************************************************)
(* fy_parse_load_document                                                  *)
(***************************************************************************)
\* the events before the document start: stream starts are skipped
RECURSIVE SkipStreamStart(_, _)
SkipStreamStart(evs, pos) ==
    IF pos <= Len(evs) /\ evs[pos].type = "STREAM_START" THEN SkipStreamStart(evs, pos + 1)
    ELSE pos

\* the last step of fy_parse_load_document, r being the result of the resolve
LoadDocumentResolved(r, d) ==
    IF r.h.crashed THEN [h |-> r.h, fyd |-> NULL]
    ELSE IF r.r # 0 THEN [h |-> fy_parse_document_destroy(r.h, d), fyd |-> NULL]
    ELSE [h |-> r.h, fyd |-> d]

\* the document is resolved when the parser's configuration asks for it
LoadDocumentResolve(h, d, resolve_document) ==
    IF ~resolve_document THEN [h |-> h, fyd |-> d]
    ELSE LoadDocumentResolved(fy_document_resolve(h, d), d)

\* after the document end e: the parents of the tree below root are resolved
LoadDocumentParents(e, d, root, resolve_document) ==
    IF e.rc # 0 THEN [h |-> fy_parse_document_destroy(e.h, d), fyd |-> NULL]
    ELSE LoadDocumentResolve(fy_resolve_parent_node(e.h, root, NULL), d, resolve_document)

\* after the load n of the root node: the root is set and the document end loaded
LoadDocumentEnd(n, d, evs, resolve_document) ==
    IF n.h.crashed THEN [h |-> n.h, fyd |-> NULL]
    ELSE IF n.rc # 0 THEN [h |-> fy_parse_document_destroy(n.h, d), fyd |-> NULL]
    ELSE LoadDocumentParents(
             fy_parse_document_load_end([n.h EXCEPT !.docs[d].root = n.fyn], evs, n.pos),
             d, n.fyn, resolve_document)

\* the root node of the document just created (the last one of h) is loaded
LoadDocumentRoot(h, evs, pos, resolve_document) ==
    LoadDocumentEnd(fy_parse_document_load_node(h, LastDoc(h), evs, pos),
                    LastDoc(h), evs, resolve_document)

\* [h, fyd]: the document, or NULL with the partly built document destroyed
fy_parse_load_document(h, evs, resolve_document) ==
    LET pos == SkipStreamStart(evs, 1)
    IN  IF pos > Len(evs) \/ evs[pos].type = "STREAM_END" THEN [h |-> h, fyd |-> NULL]
        ELSE IF evs[pos].type # "DOCUMENT_START"
             THEN [h |-> fy_error_report(h, "bad event", pos), fyd |-> NULL]
        ELSE LoadDocumentRoot(fy_parse_document_create(h), evs, pos + 1, resolve_document)

(***************************************************************************)
(* fy_document_build_from_string, _file and _fp                            *)
(***************************************************************************)
\* fy_parse_document_create as a caller reaches it: fyep is the position of
\* the DOCUMENT-START event, and a NULL fyep is refused before anything is
\* allocated
ParseDocumentCreate(h, fyep) ==
    IF fyep = NULL THEN [h |-> h, fyd |-> NULL]
    ELSE [h |-> fy_parse_document_create(h), fyd |-> Len(h.docs) + 1]

\* fy_parser_move_log_to_document: the parser's error buffer is copied to the
\* document's and the parser's stream is rewound
fy_parser_move_log_to_document(h, d) ==
    [h EXCEPT !.docs[d].errbuf = @ \o h.diag, !.diag = <<>>]

fy_document_has_error(h, d) == h.docs[d].parse_error

\* the document that stands for a failed load when diagnostics are collected
BuildParseError(c) ==
    IF c.fyd = NULL
    THEN [h |-> fy_error_report(c.h, "fy_parse_document_create() failed", 0), fyd |-> NULL]
    ELSE [h |-> fy_parser_move_log_to_document(
                    [c.h EXCEPT !.docs[c.fyd].parse_error = TRUE], c.fyd),
          fyd |-> c.fyd]

\* after the load l: a document is returned as it is (the events up to the
\* STREAM-END that closes every stream are drained); no document is the
\* failure of the build, or with FYPCF_COLLECT_DIAG a document made for the log
BuildLoaded(l, collect_diag) ==
    IF l.h.crashed \/ l.fyd # NULL THEN l
    ELSE IF ~collect_diag
    THEN [h |-> fy_error_report(l.h, "fy_parse_load_document() failed", 0), fyd |-> NULL]
    ELSE BuildParseError(
             ParseDocumentCreate(
                 fy_error_report(l.h, "fy_parse_load_document() failed", 0), NULL))

\* [h, fyd] of fy_document_build_from_string, _file and _fp: setup is the
\* return value of the parser_setup callback (the string, file or stream is
\* made the parser's input), evs the events of that input
fy_document_build_internal(h, setup, evs, collect_diag, resolve_document) ==
    IF setup # 0 THEN [h |-> fy_error_report(h, "parser_setup() failed", 0), fyd |-> NULL]
    ELSE BuildLoaded(fy_parse_load_document(h, evs, resolve_document), collect_diag)

\* after the document end e: the parents of the tree below fyn are resolved
LoadNodeParents(e, fyn) ==
    IF e.rc # 0 THEN [h |-> e.h, r |-> NULL]
    ELSE [h |-> fy_resolve_parent_node(e.h, fyn, NULL), r |-> fyn]

\* after the load n of the node: the document end is loaded
LoadNodeEnd(n, evs) ==
    IF n.h.crashed \/ n.rc # 0 THEN [h |-> n.h, r |-> NULL]
    ELSE LoadNodeParents(fy_parse_document_load_end(n.h, evs, n.pos), n.fyn)

\* fy_document_load_node, as fy_node_build_from_string runs it: a node of the
\* document d, with parents resolved and attached nowhere; [h, r]
fy_document_load_node(h, d, evs) ==
    LET pos == SkipStreamStart(evs, 1)
    IN  IF pos > Len(evs) \/ evs[pos].type = "STREAM_END" THEN [h |-> h, r |-> NULL]
        ELSE IF evs[pos].type # "DOCUMENT_START"
             THEN [h |-> fy_error_report(h, "bad event", pos), r |-> NULL]
        ELSE LoadNodeEnd(fy_parse_document_load_node(h, d, evs, pos + 1), evs)

\* fy_node_create_scalar: the node's style stays as fy_node_alloc left it
fy_node_create_scalar(h, d, text) ==
    LET h1 == fy_node_alloc(h, d, "scalar")
        h2 == fy_token_alloc(h1, "SCALAR", text, NULL)
    IN  [h2 EXCEPT !.nodes[LastNode(h1)].scalar = LastToken(h2)]

fy_node_create_sequence(h, d) == fy_node_alloc(h, d, "sequence")

fy_node_create_mapping(h, d) == fy_node_alloc(h, d, "mapping")

\* fy_document_set_root: the old root is freed, the new one has no parent
fy_document_set_root(h, d, fyn) ==
    IF d = NULL THEN h
    ELSE [(IF h.docs[d].root # NULL THEN fy_node_free(h, h.docs[d].root) ELSE h)
          EXCEPT !.docs[d].root = fyn, !.nodes[fyn].parent = NULL]

(***************************************************************************)
(* Documents below documents                                               *)
(***************************************************************************)
\* fy_document_set_parent: [h, r]; the child is refused only when it has a
\* parent already
fy_document_set_parent(h, d, fyd_child) ==
    IF d = NULL \/ fyd_child = NULL THEN [h |-> h, r |-> -1]
    ELSE IF h.docs[fyd_child].parent # NULL THEN [h |-> h, r |-> -1]
    ELSE [h |-> [[h EXCEPT !.docs[fyd_child].parent = d]
                    EXCEPT !.docs[d].children = Append(@, fyd_child)],
          r |-> 0]

\* the documents met within n steps down the children lists from the set ds
RECURSIVE DocsBelow(_, _, _)
DocsBelow(h, ds, n) ==
    IF n = 0 THEN ds
    ELSE DocsBelow(h, ds \cup UNION {Range(h.docs[d].children) : d \in ds}, n - 1)

\* the documents below d, d itself only when a chain of children leads back
DocDescendants(h, d) == DocsBelow(h, Range(h.docs[d].children), Len(h.docs))

\* the recursion over the children lists started at d meets a document that
\* is below itself, and never returns
DocRecursionLoops(h, d) ==
    \E c \in {d} \cup DocDescendants(h, d) : c \in DocDescendants(h, c)

\* fy_document_free_nodes: children first, then the root of the document
RECURSIVE fy_document_free_nodes(_, _)
RECURSIVE FreeNodesOfChildren(_, _)
FreeNodesOfChildren(h, cs) ==
    IF cs = <<>> THEN h ELSE FreeNodesOfChildren(fy_document_free_nodes(h, cs[1]), Tail(cs))

fy_document_free_nodes(h, d) ==
    [fy_node_free(FreeNodesOfChildren(h, h.docs[d].children), h.docs[d].root)
        EXCEPT !.docs[d].root = NULL]

\* fy_document_destroy on a document whose children lists hold no loop
RECURSIVE DestroyDocument(_, _)
RECURSIVE DestroyChildren(_, _)
DestroyChildren(h, cs) ==
    IF cs = <<>> THEN h
    ELSE DestroyChildren(DestroyDocument([h EXCEPT !.docs[cs[1]].parent = NULL], cs[1]),
                         Tail(cs))

DestroyDocument(h, d) ==
    fy_parse_document_destroy(
        [DestroyChildren(fy_document_free_nodes(h, d), h.docs[d].children)
            EXCEPT !.docs[d].children = <<>>],
        d)

\* fy_document_destroy: with a loop in the children lists the recursion of
\* fy_document_free_nodes has no end, and the process runs out of stack
fy_document_destroy(h, d) ==
    IF d = NULL THEN h
    ELSE IF DocRecursionLoops(h, d) THEN Abort(h)
    ELSE DestroyDocument(h, d)

(***************************************************************************)
(* The sequence API                                                        *)
(***************************************************************************)
\* fy_node_sequence_insert_prepare: [h, r]; the node's parent becomes the sequence
fy_node_sequence_insert_prepare(h, fyn_seq, fyn) ==
    IF fyn_seq = NULL \/ fyn = NULL THEN [h |-> h, r |-> -1]
    ELSE IF h.nodes[fyn_seq].type # "sequence" THEN [h |-> h, r |-> -1]
    ELSE [h |-> [h EXCEPT !.nodes[fyn].parent = fyn_seq], r |-> 0]

\* the node prepared by p is added at the tail of the list
SequenceAddTail(p, fyn_seq, fyn) ==
    IF p.r # 0 THEN p ELSE [h |-> [p.h EXCEPT !.nodes[fyn_seq].seq = Append(@, fyn)], r |-> 0]

\* the node prepared by p is added at the head of the list
SequenceAddHead(p, fyn_seq, fyn) ==
    IF p.r # 0 THEN p ELSE [h |-> [p.h EXCEPT !.nodes[fyn_seq].seq = <<fyn>> \o @], r |-> 0]

\* the mutant of the append: the node goes to the head
SequenceAppendAtHead(h, fyn_seq, fyn) ==
    SequenceAddHead(fy_node_sequence_insert_prepare(h, fyn_seq, fyn), fyn_seq, fyn)

fy_node_sequence_append(h, fyn_seq, fyn) ==
    SequenceAddTail(fy_node_sequence_insert_prepare(h, fyn_seq, fyn), fyn_seq, fyn)

fy_node_sequence_prepend(h, fyn_seq, fyn) ==
    SequenceAddHead(fy_node_sequence_insert_prepare(h, fyn_seq, fyn), fyn_seq, fyn)

\* fy_node_sequence_contains_node: the function returns bool, and its -1 for
\* a bad argument converts to true
fy_node_sequence_contains_node(h, fyn_seq, fyn) ==
    IF fyn_seq = NULL \/ fyn = NULL THEN TRUE
    ELSE IF h.nodes[fyn_seq].type # "sequence" THEN TRUE
    ELSE fyn \in Range(h.nodes[fyn_seq].seq)

\* a typed list operation that is handed a NULL element, or an element that
\* is linked in no list: it stops the process or it does nothing
ListBadElement(h) == IF uninit = "crash" THEN Abort(h) ELSE h

\* the node prepared by p is linked before the mark; a NULL mark reaches the
\* list operation, and the function returns 0 after it
SequenceLinkBefore(p, fyn_seq, fyn_mark, fyn) ==
    IF p.r # 0 THEN p
    ELSE IF fyn_mark = NULL THEN [h |-> ListBadElement(p.h), r |-> 0]
    ELSE [h |-> [p.h EXCEPT !.nodes[fyn_seq].seq = ListInsertBefore(@, fyn_mark, fyn)], r |-> 0]

\* the node prepared by p is linked after the mark; a NULL mark reaches the
\* list operation, and the function returns 0 after it
SequenceLinkAfter(p, fyn_seq, fyn_mark, fyn) ==
    IF p.r # 0 THEN p
    ELSE IF fyn_mark = NULL THEN [h |-> ListBadElement(p.h), r |-> 0]
    ELSE [h |-> [p.h EXCEPT !.nodes[fyn_seq].seq = ListInsertAfter(@, fyn_mark, fyn)], r |-> 0]

fy_node_sequence_insert_before(h, fyn_seq, fyn_mark, fyn) ==
    IF ~fy_node_sequence_contains_node(h, fyn_seq, fyn_mark) THEN [h |-> h, r |-> -1]
    ELSE SequenceLinkBefore(fy_node_sequence_insert_prepare(h, fyn_seq, fyn),
                            fyn_seq, fyn_mark, fyn)

fy_node_sequence_insert_after(h, fyn_seq, fyn_mark, fyn) ==
    IF ~fy_node_sequence_contains_node(h, fyn_seq, fyn_mark) THEN [h |-> h, r |-> -1]
    ELSE SequenceLinkAfter(fy_node_sequence_insert_prepare(h, fyn_seq, fyn),
                           fyn_seq, fyn_mark, fyn)

\* the sequences whose list links the node
SequenceHolders(h, fyn) ==
    {m \in 1..Len(h.nodes) : ~h.nodes[m].freed /\ fyn \in Range(h.nodes[m].seq)}

\* fy_node_list_del: the node is unlinked from the list that links it,
\* whichever list the call names
SequenceUnlink(h, fyn) ==
    IF SequenceHolders(h, fyn) = {} THEN ListBadElement(h)
    ELSE [h EXCEPT !.nodes[CHOOSE m \in SequenceHolders(h, fyn) : TRUE].seq = ListDel(@, fyn)]

\* fy_node_sequence_remove: [h, r], r the node removed or NULL; a bad
\* container passes the membership test, and a NULL node is written through
fy_node_sequence_remove(h, fyn_seq, fyn) ==
    IF ~fy_node_sequence_contains_node(h, fyn_seq, fyn) THEN [h |-> h, r |-> NULL]
    ELSE IF fyn = NULL THEN [h |-> Abort(h), r |-> NULL]
    ELSE [h |-> [SequenceUnlink(h, fyn) EXCEPT !.nodes[fyn].parent = NULL], r |-> fyn]

(***************************************************************************)
(* Counting and indexing the items of a sequence and the pairs of a mapping *)
(***************************************************************************)
\* the successor and the predecessor of x in a list, NULL at the ends
ListNext(s, x) == IF IndexOf(s, x) < Len(s) THEN s[IndexOf(s, x) + 1] ELSE NULL
ListPrev(s, x) == IF IndexOf(s, x) > 1 THEN s[IndexOf(s, x) - 1] ELSE NULL
ListHead(s) == IF s = <<>> THEN NULL ELSE s[1]
ListTail(s) == IF s = <<>> THEN NULL ELSE s[Len(s)]

\* the loop counts the items from the head of the list
fy_node_sequence_item_count(h, fyn) ==
    IF fyn = NULL \/ h.nodes[fyn].type # "sequence" THEN 0
    ELSE Len(h.nodes[fyn].seq)

\* prev is *prevp on entry; the result is also the new *prevp
fy_node_sequence_iterate(h, fyn, prev) ==
    IF fyn = NULL \/ h.nodes[fyn].type # "sequence" THEN NULL
    ELSE IF prev # NULL THEN ListNext(h.nodes[fyn].seq, prev)
    ELSE ListHead(h.nodes[fyn].seq)

fy_node_sequence_reverse_iterate(h, fyn, prev) ==
    IF fyn = NULL \/ h.nodes[fyn].type # "sequence" THEN NULL
    ELSE IF prev # NULL THEN ListPrev(h.nodes[fyn].seq, prev)
    ELSE ListTail(h.nodes[fyn].seq)

\* do { fyni = iterate } while (fyni && --index >= 0), fyni being the item
\* the iteration has just given
RECURSIVE SequenceForward(_, _, _, _)
SequenceForward(h, fyn, fyni, index) ==
    IF fyni # NULL /\ index - 1 >= 0
    THEN SequenceForward(h, fyn, fy_node_sequence_iterate(h, fyn, fyni), index - 1)
    ELSE fyni

\* do { fyni = reverse_iterate } while (fyni && ++index < 0)
RECURSIVE SequenceBackward(_, _, _, _)
SequenceBackward(h, fyn, fyni, index) ==
    IF fyni # NULL /\ index + 1 < 0
    THEN SequenceBackward(h, fyn, fy_node_sequence_reverse_iterate(h, fyn, fyni), index + 1)
    ELSE fyni

\* the mutant of the index: a negative index counts from the start as well
GetByIndexForwardOnly(h, fyn, index) ==
    IF fyn = NULL \/ h.nodes[fyn].type # "sequence" THEN NULL
    ELSE SequenceForward(h, fyn, fy_node_sequence_iterate(h, fyn, NULL),
                         IF index >= 0 THEN index ELSE -index - 1)

fy_node_sequence_get_by_index(h, fyn, index) ==
    IF fyn = NULL \/ h.nodes[fyn].type # "sequence" THEN NULL
    ELSE IF index >= 0
    THEN SequenceForward(h, fyn, fy_node_sequence_iterate(h, fyn, NULL), index)
    ELSE SequenceBackward(h, fyn, fy_node_sequence_reverse_iterate(h, fyn, NULL), index)

fy_node_mapping_iterate(h, fyn, prev) ==
    IF fyn = NULL \/ h.nodes[fyn].type # "mapping" THEN NULL
    ELSE IF prev # NULL THEN ListNext(h.nodes[fyn].map, prev)
    ELSE ListHead(h.nodes[fyn].map)

fy_node_mapping_reverse_iterate(h, fyn, prev) ==
    IF fyn = NULL \/ h.nodes[fyn].type # "mapping" THEN NULL
    ELSE IF prev # NULL THEN ListPrev(h.nodes[fyn].map, prev)
    ELSE ListTail(h.nodes[fyn].map)

RECURSIVE MappingForward(_, _, _, _)
MappingForward(h, fyn, fynpi, index) ==
    IF fynpi # NULL /\ index - 1 >= 0
    THEN MappingForward(h, fyn, fy_node_mapping_iterate(h, fyn, fynpi), index - 1)
    ELSE fynpi

RECURSIVE MappingBackward(_, _, _, _)
MappingBackward(h, fyn, fynpi, index) ==
    IF fynpi # NULL /\ index + 1 < 0
    THEN MappingBackward(h, fyn, fy_node_mapping_reverse_iterate(h, fyn, fynpi), index + 1)
    ELSE fynpi

fy_node_mapping_get_by_index(h, fyn, index) ==
    IF fyn = NULL \/ h.nodes[fyn].type # "mapping" THEN NULL
    ELSE IF index >= 0
    THEN MappingForward(h, fyn, fy_node_mapping_iterate(h, fyn, NULL), index)
    ELSE MappingBackward(h, fyn, fy_node_mapping_reverse_iterate(h, fyn, NULL), index)

(***************************************************************************)
(* Mapping removal, the pair setters and the anchor API                    *)
(***************************************************************************)
\* fy_node_mapping_contains_pair: bool, its -1 for a bad argument converts to true
fy_node_mapping_contains_pair(h, fyn_map, fynp) ==
    IF fyn_map = NULL \/ fynp = NULL THEN TRUE
    ELSE IF h.nodes[fyn_map].type # "mapping" THEN TRUE
    ELSE fynp \in Range(h.nodes[fyn_map].map)

\* the mappings whose list links the pair
MappingHolders(h, fynp) ==
    {m \in 1..Len(h.nodes) : ~h.nodes[m].freed /\ fynp \in Range(h.nodes[m].map)}

\* fy_node_pair_list_del: the pair is unlinked from the list that links it,
\* whichever list the call names
PairListDel(h, fynp) ==
    IF MappingHolders(h, fynp) = {} THEN ListBadElement(h)
    ELSE [h EXCEPT !.nodes[CHOOSE m \in MappingHolders(h, fynp) : TRUE].map = ListDel(@, fynp)]

\* the pair leaves the list; its value and the pair itself lose their parent
MappingUnlink(h, fyn_map, fynp) ==
    LET h1 == [PairListDel(h, fynp) EXCEPT !.pairs[fynp].parent = NULL]
    IN  IF h.pairs[fynp].value = NULL THEN h1
        ELSE [h1 EXCEPT !.nodes[h.pairs[fynp].value].parent = NULL]

\* fy_node_mapping_remove: [h, r]; a bad container passes the membership test,
\* and a NULL pair is read through
fy_node_mapping_remove(h, fyn_map, fynp) ==
    IF ~fy_node_mapping_contains_pair(h, fyn_map, fynp) THEN [h |-> h, r |-> -1]
    ELSE IF fynp = NULL THEN [h |-> Abort(h), r |-> -1]
    ELSE [h |-> MappingUnlink(h, fyn_map, fynp), r |-> 0]

\* the pair fynp found for the key is unlinked and freed without its value;
\* a key that is not the pair's own is freed as well
MappingRemoveFound(h, fyn_map, fyn_key, fynp) ==
    IF fynp = NULL THEN [h |-> h, r |-> NULL]
    ELSE LET fyn_value == h.pairs[fynp].value
             h1 == IF fyn_value = NULL THEN h ELSE [h EXCEPT !.nodes[fyn_value].parent = NULL]
             h2 == IF fyn_key # h.pairs[fynp].key THEN fy_node_free(h1, fyn_key) ELSE h1
         IN  [h |-> fy_node_pair_free([h2 EXCEPT !.pairs[fynp].value = NULL,
                                                 !.nodes[fyn_map].map = ListDel(@, fynp)],
                                      fynp),
              r |-> fyn_value]

\* fy_node_mapping_remove_by_key: [h, r], r the value of the removed pair
fy_node_mapping_remove_by_key(h, fyn_map, fyn_key) ==
    IF fyn_map = NULL \/ h.nodes[fyn_map].type # "mapping" THEN [h |-> h, r |-> NULL]
    ELSE IF LookupFaults(h, fyn_map, fyn_key) THEN [h |-> Abort(h), r |-> NULL]
    ELSE MappingRemoveFound(h, fyn_map, fyn_key, fy_node_mapping_lookup_pair(h, fyn_map, fyn_key))

\* fy_node_pair_set_key: the old key is freed
fy_node_pair_set_key(h, fynp, fyn) ==
    IF fynp = NULL THEN h
    ELSE [(IF h.pairs[fynp].key # NULL THEN fy_node_free(h, h.pairs[fynp].key) ELSE h)
          EXCEPT !.pairs[fynp].key = fyn]

\* fy_node_pair_set_value: the old value is freed
fy_node_pair_set_value(h, fynp, fyn) ==
    IF fynp = NULL THEN h
    ELSE [(IF h.pairs[fynp].value # NULL THEN fy_node_free(h, h.pairs[fynp].value) ELSE h)
          EXCEPT !.pairs[fynp].value = fyn]

\* fy_document_set_anchor, first part: the entry found for the node is
\* unlinked and destroyed
SetAnchorDrop(h, d, fyn) ==
    LET fya == fy_document_lookup_anchor_by_node(h, d, fyn)
    IN  IF fya = NoAnchor THEN h
        ELSE fy_token_unref([h EXCEPT !.docs[d].anchors = ListDel(@, fya)], fya.anchor)

\* fy_document_set_anchor with a text: [h, r]; the new entry is added at the head
fy_document_set_anchor(h, d, fyn, text) ==
    IF d = NULL THEN [h |-> h, r |-> -1]
    ELSE LET h1 == fy_token_alloc(SetAnchorDrop(h, d, fyn), "ANCHOR", text, NULL)
         IN  [h |-> [h1 EXCEPT !.docs[d].anchors = <<[anchor |-> LastToken(h1), fyn |-> fyn]>> \o @],
              r |-> 0]

fy_node_set_anchor(h, fyn, text) ==
    IF fyn = NULL THEN [h |-> h, r |-> -1]
    ELSE fy_document_set_anchor(h, h.nodes[fyn].fyd, fyn, text)

\* fy_node_remove_anchor: fy_document_set_anchor without a text
fy_node_remove_anchor(h, fyn) ==
    IF fyn = NULL \/ h.nodes[fyn].fyd = NULL THEN [h |-> h, r |-> -1]
    ELSE [h |-> SetAnchorDrop(h, h.nodes[fyn].fyd, fyn), r |-> 0]

(***************************************************************************)
(* Tags and tag directives                                                 *)
(***************************************************************************)
\* the character at position i of s, -1 past its end (texts are ASCII: a
\* character is one byte)
fy_utf8_get(s, i) == IF i >= 1 /\ i <= Len(s) THEN s[i] ELSE -1

\* the end of the run of alphanumeric characters of s that starts at i
RECURSIVE TagHandleAlnum(_, _)
TagHandleAlnum(s, i) ==
    LET c == fy_utf8_get(s, i)
    IN  IF c \in 97..122 \/ c \in 65..90 \/ c = 95 \/ c \in 48..57 \/ c = 45
        THEN TagHandleAlnum(s, i + 1) ELSE i

\* tag_handle_length: the length of the handle s starts with, -1 for none
tag_handle_length(s) ==
    IF fy_utf8_get(s, 1) # 33 THEN -1
    ELSE LET c == fy_utf8_get(s, 2)
         IN  IF c = 32 \/ c = 9 THEN 1
             ELSE IF c = 33 THEN 2
             ELSE IF ~(c \in 97..122 \/ c \in 65..90 \/ c = 95) THEN -1
             ELSE LET e == TagHandleAlnum(s, 3)
                  IN  IF fy_utf8_get(s, e) = 33 THEN e ELSE e - 1

\* the value of a hexadecimal digit, -1 for another character
TagHexValue(c) ==
    IF c \in 48..57 THEN c - 48
    ELSE IF c \in 97..102 THEN c - 87
    ELSE IF c \in 65..70 THEN c - 55
    ELSE -1

\* fy_utf8_width_by_first_octet
fy_utf8_width_by_first_octet(octet) ==
    IF octet < 128 THEN 1
    ELSE IF octet \in 192..223 THEN 2
    ELSE IF octet \in 224..239 THEN 3
    ELSE IF octet \in 240..247 THEN 4
    ELSE 0

\* tag_uri_is_valid: every run of %XX escapes decodes to one character
RECURSIVE TagUriValidFrom(_, _)
RECURSIVE TagUriEscape(_, _, _, _)
TagUriValidFrom(u, i) ==
    IF i > Len(u) THEN TRUE
    ELSE IF u[i] # 37 THEN TagUriValidFrom(u, i + 1)
    ELSE TagUriEscape(u, i, 0, 0)

\* the escape at position i; width is the number of octets the character still
\* needs (0 for its first octet), k the number of octets decoded so far
TagUriEscape(u, i, width, k) ==
    IF Len(u) - i + 1 < 3 THEN FALSE
    ELSE IF u[i] # 37 THEN FALSE
    ELSE IF TagHexValue(u[i + 1]) < 0 \/ TagHexValue(u[i + 2]) < 0 THEN FALSE
    ELSE LET octet == 16 * TagHexValue(u[i + 1]) + TagHexValue(u[i + 2])
             w == IF width = 0 THEN fy_utf8_width_by_first_octet(octet) ELSE width
         IN  IF w < 1 \/ w > 4 THEN FALSE
             ELSE IF width > 0 /\ octet \notin 128..191 THEN FALSE
             ELSE IF w - 1 > 0 THEN TagUriEscape(u, i + 3, w - 1, k + 1)
             ELSE TagUriValidFrom(u, i + 3)

tag_uri_is_valid(u) == TagUriValidFrom(u, 1)

\* fy_is_uri: alphanumerics and ; / ? : @ & = + $ , . ! ~ * ' ( ) [ ] %
fy_is_uri(c) ==
    \/ c \in 97..122 \/ c \in 65..90 \/ c = 95 \/ c \in 48..57 \/ c = 45
    \/ c \in {59, 47, 63, 58, 64, 38, 61, 43, 36, 44, 46, 33, 126, 42, 39, 40, 41, 91, 93, 37}

\* the end of the URI that starts at i: a `,`, `}` or `]` before a blank or
\* the end of the text is not part of it
RECURSIVE TagUriEnd(_, _)
TagUriEnd(s, i) ==
    LET c  == fy_utf8_get(s, i)
        cn == fy_utf8_get(s, i + 1)
    IN  IF ~fy_is_uri(c) THEN i
        ELSE IF (cn <= 0 \/ cn \in {32, 9, 10, 13}) /\ c \in {44, 125, 93} THEN i
        ELSE TagUriEnd(s, i + 1)

\* tag_uri_length: the length of the URI s starts with, -1 when it is invalid
tag_uri_length(s) ==
    LET uri_length == TagUriEnd(s, 1) - 1
    IN  IF ~tag_uri_is_valid(SubSeq(s, 1, uri_length)) THEN -1 ELSE uri_length

\* the split of the tag text `data` into [prefix_length, handle_length,
\* uri_length, suffix_length], or [bad |-> TRUE]
TagSplit(data) ==
    LET verbatim == fy_utf8_get(data, 2) = 60
        prefix_length == IF verbatim THEN 2 ELSE 0
        suffix_length == IF verbatim THEN 1 ELSE 0
        hl == IF verbatim THEN 0 ELSE tag_handle_length(data)
    IN  IF fy_utf8_get(data, 1) # 33 THEN [bad |-> TRUE]
        ELSE IF ~verbatim /\ hl <= 0 THEN [bad |-> TRUE]
        ELSE LET skip == IF verbatim THEN prefix_length ELSE hl
                 ul == tag_uri_length(SubSeq(data, skip + 1, Len(data)))
                 named == verbatim \/ (hl # 0 /\ data[hl] = 33)
                 handle_length == IF named THEN hl
                                  ELSE IF hl = 1 /\ ul = 0 THEN 0 ELSE 1
                 uri_length == IF named THEN ul
                               ELSE IF hl = 1 /\ ul = 0 THEN 1 ELSE hl - 1 + ul
             IN  IF ul < 0 THEN [bad |-> TRUE]
                 ELSE IF prefix_length + handle_length + uri_length + suffix_length # Len(data)
                      THEN [bad |-> TRUE]
                 ELSE [bad |-> FALSE, prefix_length |-> prefix_length,
                       handle_length |-> handle_length, uri_length |-> uri_length,
                       suffix_length |-> suffix_length]

\* fy_token_create(FYTT_TAG): the token takes a reference on the directive
TagTokenCreate(h, data, sp, fyt_td) ==
    LET h1 == fy_token_alloc(h, "TAG", data, NULL)
    IN  fy_token_ref([h1 EXCEPT !.tokens[LastToken(h1)].handle_length = sp.handle_length,
                                !.tokens[LastToken(h1)].uri_length = sp.uri_length,
                                !.tokens[LastToken(h1)].td = fyt_td],
                     fyt_td)

\* the new tag token (the last one of h) replaces the node's tag
NodeTakeTag(h, fyn) ==
    [fy_token_unref(h, h.nodes[fyn].tag) EXCEPT !.nodes[fyn].tag = LastToken(h)]

\* given the split sp of the text and the directive found for its handle
NodeSetTagWith(h, fyn, data, sp, fyt_td) ==
    IF fyt_td = NULL THEN [h |-> h, r |-> -1]
    ELSE [h |-> NodeTakeTag(TagTokenCreate(h, data, sp, fyt_td), fyn), r |-> 0]

NodeSetTagSplit(h, fyn, data, sp) ==
    IF sp.bad THEN [h |-> h, r |-> -1]
    ELSE NodeSetTagWith(h, fyn, data, sp,
             fy_document_state_lookup_tag_directive(h, h.nodes[fyn].fyd,
                 SubSeq(data, sp.prefix_length + 1, sp.prefix_length + sp.handle_length)))

\* fy_node_set_tag: [h, r]
fy_node_set_tag(h, fyn, data) ==
    IF fyn = NULL \/ data = <<>> \/ h.nodes[fyn].fyd = NULL THEN [h |-> h, r |-> -1]
    ELSE NodeSetTagSplit(h, fyn, data, TagSplit(data))

\* the tag token of a node is pointed at the directive fyt_td of the document
UpdateTagTo(h, fyt, fyt_td) ==
    IF fyt_td = h.tokens[fyt].td THEN h
    ELSE [fy_token_ref(fy_token_unref(h, h.tokens[fyt].td), fyt_td) EXCEPT !.tokens[fyt].td = fyt_td]

\* fy_document_node_update_tags: [h, r]; every tag below fyn is pointed at
\* the directive that document d holds for the tag's handle
RECURSIVE fy_document_node_update_tags(_, _, _)
RECURSIVE UpdateTagsItems(_, _, _)
RECURSIVE UpdateTagsPairs(_, _, _)
RECURSIVE UpdateTagsValue(_, _, _)
RECURSIVE UpdateTagsBelow(_, _, _)
UpdateTagsItems(h, d, items) ==
    IF items = <<>> THEN [h |-> h, r |-> 0]
    ELSE LET x == fy_document_node_update_tags(h, d, items[1])
         IN  IF x.r # 0 THEN x ELSE UpdateTagsItems(x.h, d, Tail(items))

\* x is the result for the key of the pair ps[1]
UpdateTagsValue(x, d, ps) ==
    IF x.r # 0 THEN x
    ELSE LET y == fy_document_node_update_tags(x.h, d, x.h.pairs[ps[1]].value)
         IN  IF y.r # 0 THEN y ELSE UpdateTagsPairs(y.h, d, Tail(ps))

UpdateTagsPairs(h, d, ps) ==
    IF ps = <<>> THEN [h |-> h, r |-> 0]
    ELSE UpdateTagsValue(fy_document_node_update_tags(h, d, h.pairs[ps[1]].key), d, ps)

UpdateTagsBelow(h, d, fyn) ==
    IF h.nodes[fyn].type = "sequence" THEN UpdateTagsItems(h, d, h.nodes[fyn].seq)
    ELSE IF h.nodes[fyn].type = "mapping" THEN UpdateTagsPairs(h, d, h.nodes[fyn].map)
    ELSE [h |-> h, r |-> 0]

fy_document_node_update_tags(h, d, fyn) ==
    IF d = NULL \/ fyn = NULL THEN [h |-> h, r |-> 0]
    ELSE IF h.nodes[fyn].tag = NULL THEN UpdateTagsBelow(h, d, fyn)
    ELSE LET fyt == h.nodes[fyn].tag
             fyt_td == fy_document_state_lookup_tag_directive(h, d,
                           fy_tag_directive_token_handle(h, h.tokens[fyt].td))
         IN  IF h.tokens[fyt].type # "TAG" THEN [h |-> fy_error_report(h, "bad node tag", NULL),
                                                 r |-> -1]
             ELSE IF h.tokens[fyt].td = NULL
                  THEN [h |-> fy_error_report(h, "bad tag directive token", NULL), r |-> -1]
             ELSE IF fyt_td = NULL
                  THEN [h |-> fy_error_report(h, "Missing tag directive", NULL), r |-> -1]
             ELSE UpdateTagsBelow(UpdateTagTo(h, fyt, fyt_td), d, fyn)

\* the copy of the directive fytc_td of the other document is added at the tail
StateMergeAppend(h, d, fytc_td) ==
    fy_append_tag_directive(h, d, fy_tag_directive_token_handle(h, fytc_td),
                            fy_tag_directive_token_prefix(h, fytc_td))

\* fy_document_state_merge, the loop over the directives tdc of the other
\* document: [h, r]
RECURSIVE StateMergeLoop(_, _, _)
StateMergeLoop(h, d, tdc) ==
    IF tdc = <<>> THEN [h |-> h, r |-> 0]
    ELSE LET fytc_td == tdc[1]
             fyt_td == fy_document_state_lookup_tag_directive(h, d,
                           fy_tag_directive_token_handle(h, fytc_td))
         IN  IF fyt_td = NULL
             THEN StateMergeLoop(StateMergeAppend(h, d, fytc_td), d, Tail(tdc))
             ELSE IF fy_tag_directive_token_prefix(h, fyt_td)
                         = fy_tag_directive_token_prefix(h, fytc_td)
                  THEN StateMergeLoop(h, d, Tail(tdc))
             ELSE IF ~fy_token_tag_directive_is_overridable(h, fyt_td)
                  THEN [h |-> fy_error_report(h, "duplicate differing tag declaration",
                                              h.tokens[fytc_td].mark),
                        r |-> -1]
             ELSE StateMergeLoop(
                      StateMergeAppend(
                          fy_token_unref([h EXCEPT !.docs[d].td = ListDel(@, fyt_td)], fyt_td),
                          d, fytc_td),
                      d, Tail(tdc))

\* the tags of the document are updated once the directives are merged
StateMergeUpdate(m, d) ==
    IF m.r # 0 THEN m ELSE fy_document_node_update_tags(m.h, d, m.h.docs[d].root)

\* fy_document_state_merge: [h, r]
fy_document_state_merge(h, d, dc) ==
    IF d = NULL \/ dc = NULL THEN [h |-> h, r |-> 0]
    ELSE StateMergeUpdate(StateMergeLoop(h, d, h.docs[dc].td), d)

(***************************************************************************)
(* The parser's output: documents as trees, linearised into event streams  *)
(***************************************************************************)
\* a YAML node: kids are the items of a sequence, or key, value, key, value ...
Yaml(k, text, style, anchor, kids, flow) ==
    [k |-> k, text |-> text, style |-> style, anchor |-> anchor, kids |-> kids, flow |-> flow]

YS(text) == Yaml("scalar", text, "plain", <<>>, <<>>, FALSE)
YQ(text) == Yaml("scalar", text, "double", <<>>, <<>>, FALSE)
YAlias(name) == Yaml("alias", name, "alias", <<>>, <<>>, FALSE)
YSeq(kids) == Yaml("seq", <<>>, "any", <<>>, kids, Len(kids) = 0)
YMap(kids) == Yaml("map", <<>>, "any", <<>>, kids, Len(kids) = 0)
YFlow(y) == [y EXCEPT !.flow = TRUE]
YAnchor(a, y) == [y EXCEPT !.anchor = a]

NoEvent(type) == Event(type, <<>>, <<>>, <<>>, "any", FALSE)

RECURSIVE NodeEvents(_)
RECURSIVE KidsEvents(_)
KidsEvents(kids) ==
    IF kids = <<>> THEN <<>> ELSE NodeEvents(kids[1]) \o KidsEvents(Tail(kids))

NodeEvents(y) ==
    IF y.k = "scalar" THEN <<Event("SCALAR", y.anchor, <<>>, y.text, y.style, TRUE)>>
    ELSE IF y.k = "alias" THEN <<Event("ALIAS", y.text, <<>>, <<>>, "alias", TRUE)>>
    ELSE IF y.k = "seq"
         THEN <<Event("SEQUENCE_START", y.anchor, <<>>, <<>>, "any", y.flow)>>
              \o KidsEvents(y.kids) \o <<NoEvent("SEQUENCE_END")>>
    ELSE <<Event("MAPPING_START", y.anchor, <<>>, <<>>, "any", y.flow)>>
         \o KidsEvents(y.kids) \o <<NoEvent("MAPPING_END")>>

\* the event stream of a one-document stream
Stream(y) ==
    <<NoEvent("STREAM_START"), NoEvent("DOCUMENT_START")>> \o NodeEvents(y)
    \o <<NoEvent("DOCUMENT_END"), NoEvent("STREAM_END")>>

(***************************************************************************)
(* The mutation API                                                        *)
(***************************************************************************)
\* the test of fy_node_mapping_pair_insert_prepare that refuses the new pair
InsertPrepareRefuses(h, fyn_map, fyn_key) ==
    \/ fyn_map = NULL
    \/ h.nodes[fyn_map].type # "mapping"
    \/ fy_node_mapping_key_is_duplicate(h, fyn_map, fyn_key)

\* [h, r]: the new pair, or NULL
fy_node_mapping_pair_insert_prepare(h, fyn_map, fyn_key, fyn_value) ==
    IF fyn_map # NULL /\ h.nodes[fyn_map].type = "mapping" /\ LookupFaults(h, fyn_map, fyn_key)
    THEN [h |-> Abort(h), r |-> NULL]
    ELSE IF InsertPrepareRefuses(h, fyn_map, fyn_key) THEN [h |-> h, r |-> NULL]
    ELSE LET h1 == fy_node_pair_alloc(h, h.nodes[fyn_map].fyd)
             np == LastPair(h1)
             h2 == IF fyn_key # NULL THEN [h1 EXCEPT !.nodes[fyn_key].parent = NULL] ELSE h1
             h3 == IF fyn_value # NULL THEN [h2 EXCEPT !.nodes[fyn_value].parent = fyn_map]
                   ELSE h2
         IN  [h |-> [h3 EXCEPT !.pairs[np].key = fyn_key, !.pairs[np].value = fyn_value,
                               !.pairs[np].parent = fyn_map],
              r |-> np]

\* the pair p prepared for fyn_map is added at the tail of its list
MappingAddTail(p, fyn_map) ==
    IF p.r = NULL THEN [h |-> p.h, r |-> -1]
    ELSE [h |-> [p.h EXCEPT !.nodes[fyn_map].map = Append(@, p.r)], r |-> 0]

\* the pair p prepared for fyn_map is added at the head of its list
MappingAddHead(p, fyn_map) ==
    IF p.r = NULL THEN [h |-> p.h, r |-> -1]
    ELSE [h |-> [p.h EXCEPT !.nodes[fyn_map].map = <<p.r>> \o @], r |-> 0]

fy_node_mapping_append(h, fyn_map, fyn_key, fyn_value) ==
    MappingAddTail(fy_node_mapping_pair_insert_prepare(h, fyn_map, fyn_key, fyn_value), fyn_map)

fy_node_mapping_prepend(h, fyn_map, fyn_key, fyn_value) ==
    MappingAddHead(fy_node_mapping_pair_insert_prepare(h, fyn_map, fyn_key, fyn_value), fyn_map)

\* fy_node_insert: the pair of the parent mapping whose value is fyn_to
RECURSIVE InsertFindValuePair(_, _, _)
InsertFindValuePair(h, ps, fyn_to) ==
    IF ps = <<>> THEN NULL
    ELSE IF h.pairs[ps[1]].value = fyn_to THEN ps[1]
    ELSE InsertFindValuePair(h, Tail(ps), fyn_to)

\* fy_node_insert: the inner loop that looks the key of `from` up in `to`;
\* the pair, NULL, or UNINIT when the comparison reads a bad pair parent
RECURSIVE InsertFindKey(_, _, _)
RECURSIVE InsertFindKeyFrom(_, _, _, _)
InsertFindKey(h, ps, fyn_key) ==
    IF ps = <<>> THEN NULL
    ELSE InsertFindKeyFrom(NodeCompare(h, fyn_key, h.pairs[ps[1]].key), h, ps, fyn_key)

\* given the result c of the comparison with the key of the first pair of ps
InsertFindKeyFrom(c, h, ps, fyn_key) ==
    IF c = "fault" THEN UNINIT
    ELSE IF c = "eq" THEN ps[1]
    ELSE InsertFindKey(h, Tail(ps), fyn_key)

\* the copy c of `from` takes the place of `to`: as the root, in the sequence
\* that holds `to`, or as the value of the pair fynp
InsertReplaceBy(c, d, fyn_to, fyn_parent, fynp) ==
    IF fyn_parent = NULL
    THEN [fy_node_free(c.h, c.h.docs[d].root) EXCEPT !.docs[d].root = c.r]
    ELSE IF c.h.nodes[fyn_parent].type = "sequence"
         THEN LET i  == IndexOf(c.h.nodes[fyn_parent].seq, fyn_to)
                  h1 == [c.h EXCEPT !.nodes[fyn_parent].seq = RemoveAt(@, i)]
                  h2 == fy_node_free(h1, fyn_to)
              IN  [h2 EXCEPT !.nodes[fyn_parent].seq =
                                 SubSeq(@, 1, i - 1) \o <<c.r>> \o SubSeq(@, i, Len(@))]
    ELSE IF c.h.pairs[fynp].value # NULL
         THEN [fy_node_free(c.h, c.h.pairs[fynp].value) EXCEPT !.pairs[fynp].value = c.r]
    ELSE [c.h EXCEPT !.pairs[fynp].value = c.r]

\* fy_node_insert, types differ or scalar: `to` is replaced by a copy of `from`
InsertReplace(h, d, fyn_to, fyn_from, fyn_parent, fynp) ==
    InsertReplaceBy(fy_node_copy(h, d, fyn_from), d, fyn_to, fyn_parent, fynp)

\* the copy c of an item is added at the tail of `to`
InsertAppendCopy(c, fyn_to) == [c.h EXCEPT !.nodes[fyn_to].seq = Append(@, c.r)]

\* fy_node_insert, both sequences: copies of the items of `from` are appended
RECURSIVE InsertAppendItems(_, _, _, _)
InsertAppendItems(h, d, fyn_to, items) ==
    IF items = <<>> THEN h
    ELSE InsertAppendItems(InsertAppendCopy(fy_node_copy(h, d, items[1]), fyn_to),
                           d, fyn_to, Tail(items))

\* fy_node_insert, both mappings: a key of `from` found in `to` has its value
\* replaced, a key not found is appended
RECURSIVE InsertMergePairs(_, _, _, _)
RECURSIVE InsertMergePair(_, _, _, _, _)
InsertMergePairs(h, d, fyn_to, ps) ==
    IF ps = <<>> \/ h.crashed THEN h
    ELSE InsertMergePair(InsertFindKey(h, h.nodes[fyn_to].map, h.pairs[ps[1]].key),
                         h, d, fyn_to, ps)

\* the copy cv of a value becomes the value of the pair fynpj
InsertSetValue(cv, fynpj) == [cv.h EXCEPT !.pairs[fynpj].value = cv.r]

\* an iteration of the loop, fynpj being the pair of `to` found for the key of
\* the pair ps[1] of `from`
InsertMergePair(fynpj, h, d, fyn_to, ps) ==
    IF fynpj = UNINIT THEN Abort(h)
    ELSE IF fynpj = NULL
         THEN LET h1 == fy_node_pair_alloc(h, d)
                  np == LastPair(h1)
                  h2 == NewPairCopyKey(h1, d, np, h.pairs[ps[1]].key, h.pairs[ps[1]].value)
              IN  InsertMergePairs([h2 EXCEPT !.nodes[fyn_to].map = Append(@, np)],
                                   d, fyn_to, Tail(ps))
    ELSE InsertMergePairs(
             InsertSetValue(fy_node_copy(fy_node_free(h, h.pairs[fynpj].value), d,
                                         h.pairs[ps[1]].value),
                            fynpj),
             d, fyn_to, Tail(ps))

\* fy_node_insert, "deleting target": the root, an item of the sequence
\* fyn_parent, or the pair fynp of the mapping fyn_parent; [h, r]
InsertDelete(h, d, fyn_to, fyn_parent, fynp) ==
    IF fyn_parent = NULL
    THEN [h |-> [fy_node_free(h, fyn_to) EXCEPT !.docs[d].root = NULL], r |-> 0]
    ELSE IF h.nodes[fyn_parent].type = "sequence"
         THEN [h |-> fy_node_free([h EXCEPT !.nodes[fyn_parent].seq = ListDel(@, fyn_to)],
                                  fyn_to),
               r |-> 0]
    ELSE IF fynp = NULL THEN [h |-> h, r |-> -1]
    ELSE [h |-> fy_node_pair_free([h EXCEPT !.nodes[fyn_parent].map = ListDel(@, fynp)], fynp),
          r |-> 0]

\* the return of fy_node_insert after the merge of two mappings
InsertMerged(h) == [h |-> h, r |-> IF h.crashed THEN -1 ELSE 0]

\* the end of fy_node_insert after an append or a merge x: if the documents
\* differ, their states are merged
InsertStates(x, d, dc) ==
    IF x.r # 0 \/ x.h.crashed \/ d = dc THEN x ELSE fy_document_state_merge(x.h, d, dc)

\* [h, r]
fy_node_insert(h, fyn_to, fyn_from) ==
    IF fyn_to = NULL THEN [h |-> h, r |-> -1]
    ELSE LET d == h.nodes[fyn_to].fyd
             fyn_parent == h.nodes[fyn_to].parent
             fynp == IF fyn_parent # NULL /\ h.nodes[fyn_parent].type = "mapping"
                     THEN InsertFindValuePair(h, h.nodes[fyn_parent].map, fyn_to)
                     ELSE NULL
         IN  IF fyn_parent # NULL /\ h.nodes[fyn_parent].type = "scalar"
             THEN [h |-> h, r |-> -1]
             ELSE IF fyn_parent # NULL /\ fyn_from = NULL THEN [h |-> h, r |-> -1]
             ELSE IF fyn_parent = NULL /\ fyn_to # h.docs[d].root
                  THEN [h |-> Abort(h), r |-> -1]
             ELSE IF fyn_from = NULL
                  THEN InsertDelete([h EXCEPT !.nodes[fyn_to].parent = NULL],
                                    d, fyn_to, fyn_parent, fynp)
             ELSE IF h.nodes[fyn_from].type # h.nodes[fyn_to].type
                     \/ h.nodes[fyn_from].type = "scalar"
                  THEN IF fyn_parent # NULL /\ h.nodes[fyn_parent].type = "mapping"
                          /\ fynp = NULL
                       THEN [h |-> (fy_node_copy(h, d, fyn_from)).h, r |-> -1]
                       ELSE [h |-> InsertReplace(h, d, fyn_to, fyn_from, fyn_parent, fynp),
                             r |-> 0]
             ELSE IF h.nodes[fyn_to].type = "sequence"
                  THEN InsertStates([h |-> InsertAppendItems(h, d, fyn_to, h.nodes[fyn_from].seq),
                                     r |-> 0],
                                    d, h.nodes[fyn_from].fyd)
             ELSE InsertStates(InsertMerged(InsertMergePairs(h, d, fyn_to, h.nodes[fyn_from].map)),
                               d, h.nodes[fyn_from].fyd)

(***************************************************************************)
(* Bounds and inputs                                                       *)
(***************************************************************************)
\* API calls made on a built document
MaxOps == 2

RECURSIVE Flatten(_)
Flatten(ps) == IF ps = <<>> THEN <<>> ELSE <<ps[1][1], ps[1][2]>> \o Flatten(Tail(ps))

\* a block mapping from a sequence of <<key, value>>
YM(ps) == YMap(Flatten(ps))

\* keys of every kind: scalars (one a prefix of another, one empty), sequences, mappings
KeyNodes ==
    {YS(tA), YS(tB), YS(tAB), YS(tEmpty), YQ(tA),
     YSeq(<<YS(tA)>>), YSeq(<<YS(tB)>>), YFlow(YSeq(<<>>)),
     YM(<<<<YS(tA), YS(t1)>>>>), YM(<<<<YS(tB), YS(t1)>>>>)}

\* root mappings of one and two pairs over KeyNodes: the duplicate-key cases
\* of the builder are among them
DocsMappings ==
    {YM(<<<<k, YS(t1)>>>>) : k \in KeyNodes}
    \cup {YM(<<<<k1, YS(t1)>>, <<k2, YS(t2)>>>>) : k1, k2 \in KeyNodes}
    \cup {YM(<<<<YS(tA), YS(t1)>>, <<YS(tB), YS(t2)>>, <<k, YS(t3)>>>>) :
              k \in {YS(tA), YS(tB), YS(tC), YS(tAB)}}
    \cup {YM(<<<<YS(tC), YM(<<<<YS(tA), YS(t1)>>, <<k, YS(t2)>>>>)>>>>) :
              k \in {YS(tA), YS(tB)}}
    \cup {YM(<<<<YM(<<<<YS(tA), YS(t1)>>, <<k, YS(t2)>>>>), YS(tC)>>>>) :
              k \in {YS(tA), YS(tB)}}
    \cup {YSeq(<<YS(tC), YM(<<<<YS(tA), YS(t1)>>, <<k, YS(t2)>>>>)>>) :
              k \in {YS(tA), YS(tB), YQ(tA)}}

\* two mappings holding the same pairs in the two insertion orders, and a third
TwoOrders(k1, k2) ==
    YSeq(<<YM(<<<<k1, YS(t1)>>, <<k2, YS(t2)>>>>),
           YM(<<<<k2, YS(t2)>>, <<k1, YS(t1)>>>>),
           YM(<<<<k1, YS(t1)>>, <<k2, YS(t3)>>>>)>>)

DocsOrders ==
    {TwoOrders(k1, k2) : k1, k2 \in KeyNodes \ {YQ(tA), YS(tEmpty)}}
    \cup {YSeq(<<YSeq(<<YS(tA), YS(tB)>>), YSeq(<<YS(tB), YS(tA)>>),
                 YSeq(<<YS(tA)>>), YSeq(<<YS(tA), YS(tB)>>)>>),
          YSeq(<<YS(tEmpty), YQ(tEmpty), YFlow(YSeq(<<>>)), YFlow(YMap(<<>>)), YS(tA), YQ(tA)>>)}

\* anchors and aliases
DocsAliases ==
    {YSeq(<<YAnchor(tA, YS(tB)), YAlias(tA)>>),
     YSeq(<<YAlias(tA), YAnchor(tA, YS(tB))>>),
     YSeq(<<YAlias(tC)>>),
     YSeq(<<YAnchor(tA, YS(tB)), YAlias(tA), YAlias(tC)>>),
     YAnchor(tA, YSeq(<<YAlias(tA)>>)),
     YAnchor(tA, YSeq(<<YS(tB), YAlias(tA)>>)),
     YSeq(<<YAnchor(tA, YM(<<<<YS(tB), YSeq(<<YS(t1)>>)>>>>)), YAlias(tA)>>),
     YSeq(<<YAnchor(tA, YS(tB)), YM(<<<<YAlias(tA), YS(t1)>>, <<YS(tB), YS(t2)>>>>)>>),
     YSeq(<<YAnchor(tA, YS(tB)), YM(<<<<YS(tB), YS(t1)>>, <<YAlias(tA), YS(t2)>>>>)>>),
     YM(<<<<YAnchor(tA, YS(tB)), YS(t1)>>, <<YAlias(tA), YS(t2)>>>>),
     YM(<<<<YAnchor(tA, YS(tB)), YAlias(tA)>>>>),
     YM(<<<<YS(tA), YAnchor(tA, YS(tB))>>, <<YS(tB), YAlias(tA)>>, <<YS(tC), YAlias(tA)>>>>),
     YSeq(<<YAnchor(tA, YS(tB)), YAnchor(tA, YS(tC))>>),
     YM(<<<<YAnchor(tA, YS(tB)), YS(t1)>>, <<YAnchor(tA, YS(tC)), YS(t2)>>>>),
     YSeq(<<YAnchor(tA, YSeq(<<YAnchor(tB, YS(tC))>>)), YAlias(tA), YAlias(tB)>>),
     YSeq(<<YAnchor(tA, YM(<<<<YS(tB), YSeq(<<YS(t1)>>)>>, <<YS(tEmpty), YS(t2)>>>>)),
            YAlias(tA), YAlias(tA)>>)}

\* merge keys: d = &d {a: 1, b: 2}, e = &e {b: 5, c: 6}
YD == YAnchor(tB \o tA, YM(<<<<YS(tA), YS(t1)>>, <<YS(tB), YS(t2)>>>>))
YE == YAnchor(tB \o tB, YM(<<<<YS(tB), YS(t5)>>, <<YS(tC), YS(t4)>>>>))
RefD == YAlias(tB \o tA)
RefE == YAlias(tB \o tB)
RefNone == YAlias(tB \o tC)

MergeValues ==
    {RefD, RefE, YSeq(<<RefD, RefE>>), YSeq(<<RefE, RefD>>), YSeq(<<RefD>>), YFlow(YSeq(<<>>)),
     RefNone, YS(t1), YSeq(<<RefD, YS(t1)>>), YSeq(<<RefD, RefNone>>)}

DocsMerges ==
    {YSeq(<<YD, YE, YM(<<<<YS(tMerge), mv>>, <<YS(tB), YS(t3)>>, <<YS(tC), YS(t4)>>>>)>>) :
         mv \in MergeValues}
    \cup {YSeq(<<YD, YE, YM(<<<<YS(tB), YS(t3)>>, <<YS(tMerge), mv>>>>)>>) : mv \in MergeValues}
    \cup {YSeq(<<YD, YE, YM(<<<<YS(tMerge), mv>>>>)>>) : mv \in MergeValues}
    \cup {YSeq(<<YD, YM(<<<<YQ(tMerge), RefD>>>>)>>),
          YSeq(<<YAnchor(tB \o tA, YSeq(<<YS(tA)>>)), YM(<<<<YS(tMerge), RefD>>>>)>>),
          YAnchor(tB \o tA, YM(<<<<YS(tA), YM(<<<<YS(tMerge), RefD>>>>)>>>>)),
          YAnchor(tB \o tA, YM(<<<<YS(tMerge), RefD>>, <<YS(tB), YS(t1)>>>>)),
          YSeq(<<YM(<<<<YS(tC), RefE>>>>),
                 YAnchor(tB \o tB, YM(<<<<YS(tMerge), RefD>>, <<YS(tB), YS(t1)>>>>)),
                 YD>>),
          YSeq(<<YM(<<<<YS(tMerge), RefE>>>>),
                 YAnchor(tB \o tB, YM(<<<<YS(tMerge), RefD>>, <<YS(tC), YS(t1)>>>>)),
                 YD>>),
          YSeq(<<YAnchor(tB \o tB, YM(<<<<YS(tMerge), RefD>>, <<YS(tC), YS(t1)>>>>)),
                 YD,
                 YM(<<<<YS(tMerge), RefE>>>>)>>),
          YSeq(<<YD, YM(<<<<YS(tC), YM(<<<<YS(tMerge), RefD>>, <<YS(tA), YS(t5)>>>>)>>>>)>>),
          YSeq(<<YAnchor(tB \o tA, YM(<<<<YSeq(<<YS(tA)>>), YS(t1)>>,
                                        <<YSeq(<<YS(tB)>>), YS(t2)>>>>)),
                 YM(<<<<YS(tMerge), RefD>>, <<YSeq(<<YS(tA)>>), YS(t3)>>>>)>>),
          YSeq(<<YAnchor(tB \o tA, YM(<<<<YS(tA), YS(t1)>>, <<YS(tB), YS(t2)>>,
                                        <<YS(tC), YS(t3)>>>>)),
                 YM(<<<<YS(tMerge), RefD>>>>)>>),
          YSeq(<<YM(<<<<YS(tMerge), RefD>>, <<YS(tC), YS(t2)>>>>),
                 YAnchor(tB \o tA, YM(<<<<YAlias(tA), YS(t1)>>>>)),
                 YAnchor(tA, YS(tC))>>),
          YSeq(<<YAnchor(tA, YS(tC)),
                 YAnchor(tB \o tA, YM(<<<<YAlias(tA), YS(t1)>>>>)),
                 YM(<<<<YS(tMerge), RefD>>, <<YS(tC), YS(t2)>>>>)>>),
          YSeq(<<YM(<<<<YS(tMerge), RefD>>>>), YAnchor(tB \o tA, YM(<<<<YS(tA), RefNone>>>>))>>),
          YSeq(<<YAnchor(tA, YS(tMerge)), YD, YM(<<<<YAlias(tA), RefD>>>>)>>)}

Docs == DocsMappings \cup DocsOrders \cup DocsAliases \cup DocsMerges

\* the documents the mutation API is exercised on
DocsApi ==
    {YM(<<<<YS(tA), YS(t1)>>>>),
     YM(<<<<YS(tAB), YS(t1)>>, <<YS(tB), YM(<<<<YS(tA), YS(t2)>>>>)>>>>),
     YSeq(<<YM(<<<<YS(tA), YS(t1)>>>>), YS(tB)>>),
     YSeq(<<YAnchor(tA, YS(tB)), YM(<<<<YAlias(tA), YS(t1)>>>>)>>),
     YSeq(<<YAnchor(tB \o tA, YM(<<<<YS(tA), YS(t1)>>>>)),
            YM(<<<<YS(tMerge), RefD>>, <<YS(tB), YS(t2)>>>>)>>),
     YM(<<<<YSeq(<<YS(tA)>>), YS(t1)>>, <<YS(tEmpty), YS(t2)>>>>)}

\* the texts of the scalars a caller creates, and the fragments it builds
NewTexts == {tA, tB}
Fragments ==
    {YS(tA), YSeq(<<YS(tA)>>),
     YM(<<<<YS(tB), YM(<<<<YFlow(YSeq(<<>>)), YS(t1)>>, <<YSeq(<<YS(tA)>>), YS(t2)>>>>)>>>>)}

(***************************************************************************)
(* Reachable nodes                                                         *)
(***************************************************************************)
RECURSIVE Reach(_, _)
Reach(h, fyn) ==
    IF fyn = NULL THEN {}
    ELSE {fyn}
         \cup (IF h.nodes[fyn].type = "sequence"
               THEN UNION {Reach(h, h.nodes[fyn].seq[i]) : i \in 1..Len(h.nodes[fyn].seq)}
               ELSE {})
         \cup (IF h.nodes[fyn].type = "mapping"
               THEN UNION {Reach(h, h.pairs[h.nodes[fyn].map[i]].key)
                           \cup Reach(h, h.pairs[h.nodes[fyn].map[i]].value) :
                               i \in 1..Len(h.nodes[fyn].map)}
               ELSE {})

\* the nodes of the document d
DocNodes(h, d) == IF d = NULL THEN {} ELSE Reach(h, h.docs[d].root)

\* the sequences of the document d
DocSequences(h, d) == {n \in DocNodes(h, d) : h.nodes[n].type = "sequence"}

\* the mappings of the document d
DocMappings(h, d) == {n \in DocNodes(h, d) : h.nodes[n].type = "mapping"}

\* the nodes a caller passes as the mapping of append and prepend: the
\* mappings of the document, and its root whatever its type
ApiMappings(h, d) ==
    DocMappings(h, d) \cup (IF d = NULL \/ h.docs[d].root = NULL THEN {} ELSE {h.docs[d].root})

(***************************************************************************)
(* The state machine                                                       *)
(***************************************************************************)
Call(op, rc, to, arg) == [op |-> op, rc |-> rc, to |-> to, arg |-> arg]

InitWith(docs) ==
    /\ heap = EmptyHeap
    /\ input \in {Stream(y) : y \in docs}
    /\ phase = "start"
    /\ fyd = NULL
    /\ ops = 0
    /\ last = Call("none", 0, NULL, NULL)
    /\ qsortTies \in {"stable", "unstable"}
    /\ uninit \in {"crash", "stray"}

Init == InitWith(Docs)

InitApi == InitWith(DocsApi)

PhaseAfter(h, d) == IF h.crashed THEN "crashed" ELSE IF d = NULL THEN "failed" ELSE "built"

\* fy_parse_load_document, with or without FYPCF_RESOLVE_DOCUMENT
Build ==
    /\ phase = "start"
    /\ \E resolve_document \in BOOLEAN :
        \E r \in {fy_parse_load_document(heap, input, resolve_document)} :
            /\ heap' = r.h
            /\ fyd' = r.fyd
            /\ phase' = PhaseAfter(r.h, r.fyd)
            /\ last' = Call("build", IF r.fyd = NULL THEN -1 ELSE 0, NULL, resolve_document)
    /\ UNCHANGED <<input, ops, qsortTies, uninit>>

\* fy_document_resolve on the built document
Resolve ==
    /\ phase = "built"
    /\ ops < MaxOps
    /\ \E r \in {fy_document_resolve(heap, fyd)} :
           /\ heap' = r.h
           /\ phase' = PhaseAfter(r.h, fyd)
           /\ last' = Call("resolve", r.r, NULL, NULL)
    /\ ops' = ops + 1
    /\ UNCHANGED <<input, fyd, qsortTies, uninit>>

\* fy_node_mapping_append of a key and a value made by fy_node_create_scalar
MappingAppend ==
    /\ phase = "built"
    /\ ops < MaxOps
    /\ \E fyn_map \in ApiMappings(heap, fyd), text \in NewTexts :
        LET h1 == fy_node_create_scalar(heap, fyd, text)
            h2 == fy_node_create_scalar(h1, fyd, t5)
        IN  \E r \in {fy_node_mapping_append(h2, fyn_map, LastNode(h1), LastNode(h2))} :
                /\ heap' = r.h
                /\ phase' = PhaseAfter(r.h, fyd)
                /\ last' = Call("append", r.r, fyn_map, LastNode(h1))
    /\ ops' = ops + 1
    /\ UNCHANGED <<input, fyd, qsortTies, uninit>>

\* fy_node_mapping_prepend of a key and a value made by fy_node_create_scalar
MappingPrepend ==
    /\ phase = "built"
    /\ ops < MaxOps
    /\ \E fyn_map \in ApiMappings(heap, fyd), text \in NewTexts :
        LET h1 == fy_node_create_scalar(heap, fyd, text)
            h2 == fy_node_create_scalar(h1, fyd, t5)
        IN  \E r \in {fy_node_mapping_prepend(h2, fyn_map, LastNode(h1), LastNode(h2))} :
                /\ heap' = r.h
                /\ phase' = PhaseAfter(r.h, fyd)
                /\ last' = Call("prepend", r.r, fyn_map, LastNode(h1))
    /\ ops' = ops + 1
    /\ UNCHANGED <<input, fyd, qsortTies, uninit>>

\* fy_node_insert of a node made by fy_node_build_from_string in the same document
NodeInsert ==
    /\ phase = "built"
    /\ ops < MaxOps
    /\ \E fyn_to \in DocNodes(heap, fyd), y \in Fragments :
        \E b \in {fy_document_load_node(heap, fyd, Stream(y))} :
            \E r \in {fy_node_insert(b.h, fyn_to, b.r)} :
                /\ heap' = r.h
                /\ phase' = PhaseAfter(r.h, fyd)
                /\ last' = Call("insert", r.r, fyn_to, b.r)
    /\ ops' = ops + 1
    /\ UNCHANGED <<input, fyd, qsortTies, uninit>>

\* fy_node_insert with a NULL source: the target is deleted
NodeDelete ==
    /\ phase = "built"
    /\ ops < MaxOps
    /\ \E fyn_to \in DocNodes(heap, fyd) :
        \E r \in {fy_node_insert(heap, fyn_to, NULL)} :
            /\ heap' = r.h
            /\ phase' = PhaseAfter(r.h, fyd)
            /\ last' = Call("delete", r.r, fyn_to, NULL)
    /\ ops' = ops + 1
    /\ UNCHANGED <<input, fyd, qsortTies, uninit>>

\* loading and resolving, over every input document
Next == Build \/ Resolve

Spec == Init /\ [][Next]_vars

\* loading, resolving and the mutation API, over the documents of DocsApi
NextApi == Build \/ Resolve \/ MappingAppend \/ MappingPrepend \/ NodeInsert \/ NodeDelete

SpecApi == InitApi /\ [][NextApi]_vars

(***************************************************************************)
(* Two documents made through the API, their tags and tag directives       *)
(***************************************************************************)
\* API calls made on the two documents
MaxTagOps == 3

\* the tag texts !e!x, !!x and x
tagE == <<33, 101, 33, 120>>
tagYaml == <<33, 33, 120>>
tagBad == <<120>>
TagTexts == {tagE, tagYaml, tagBad}

NodeKinds == {"scalar", "sequence", "mapping"}

\* the node fyn becomes the root of d: as it is, as the item of a new
\* sequence, or as the value of the key `a` of a new mapping
TagsRootOf(h, d, k, fyn) ==
    IF k = "scalar" THEN fy_document_set_root(h, d, fyn)
    ELSE IF k = "sequence"
         THEN LET h1 == fy_node_create_sequence(h, d)
              IN  fy_document_set_root(
                      (fy_node_sequence_append(h1, LastNode(h1), fyn)).h, d, LastNode(h1))
    ELSE LET h1 == fy_node_create_mapping(h, d)
             h2 == fy_node_create_scalar(h1, d, tA)
         IN  fy_document_set_root(
                 (fy_node_mapping_append(h2, LastNode(h1), LastNode(h2), fyn)).h, d, LastNode(h1))

\* a root of kind k for d over a scalar with the text and, if any, the tag
TagsRoot(h, d, k, text, tag) ==
    LET h1 == fy_node_create_scalar(h, d, text)
    IN  TagsRootOf(IF tag = <<>> THEN h1 ELSE (fy_node_set_tag(h1, LastNode(h1), tag)).h,
                   d, k, LastNode(h1))

\* document 1 declares !e! and holds a scalar tagged !e!x; document 2 holds an
\* untagged scalar and declares !e! with the same prefix, another one, or not
TagsHeap(k, other) ==
    LET h0 == fy_document_create(fy_document_create(EmptyHeap))
        h1 == (fy_document_tag_directive_add(h0, 1, hE, pX)).h
        h2 == TagsRoot(h1, 1, k, tA, tagE)
        h3 == IF other = <<>> THEN h2 ELSE (fy_document_tag_directive_add(h2, 2, hE, other)).h
    IN  TagsRoot(h3, 2, k, tB, <<>>)

TagsHeaps == {TagsHeap(k, other) : k \in NodeKinds, other \in {<<>>, pX, pY}}

InitTags ==
    /\ heap \in TagsHeaps
    /\ input = <<>>
    /\ phase = "api"
    /\ fyd = 1
    /\ ops = 0
    /\ last = Call("none", 0, NULL, NULL)
    /\ qsortTies = "stable"
    /\ uninit = "stray"

ApiPhaseAfter(h) == IF h.crashed THEN "crashed" ELSE "api"

\* the nodes that are not freed
LiveNodes(h) == {n \in 1..Len(h.nodes) : ~h.nodes[n].freed}

\* the live nodes that are neither a root nor held by a sequence or a mapping:
\* the ones the caller holds
DetachedNodes(h) ==
    {n \in LiveNodes(h) :
        /\ \A d \in 1..Len(h.docs) : h.docs[d].root # n
        /\ \A m \in LiveNodes(h) :
              /\ n \notin Range(h.nodes[m].seq)
              /\ \A i \in 1..Len(h.nodes[m].map) :
                    /\ h.pairs[h.nodes[m].map[i]].key # n
                    /\ h.pairs[h.nodes[m].map[i]].value # n}

\* fy_document_tag_directive_add
TagDirectiveAdd ==
    /\ phase = "api"
    /\ ops < MaxTagOps
    /\ \E d \in 1..Len(heap.docs), handle \in {hE, hF} :
        \E r \in {fy_document_tag_directive_add(heap, d, handle, pY)} :
            /\ heap' = r.h
            /\ last' = Call("td_add", r.r, d, handle)
    /\ phase' = "api"
    /\ ops' = ops + 1
    /\ UNCHANGED <<input, fyd, qsortTies, uninit>>

\* fy_document_tag_directive_remove
TagDirectiveRemove ==
    /\ phase = "api"
    /\ ops < MaxTagOps
    /\ \E d \in 1..Len(heap.docs), handle \in {hE, hF, hBangBang} :
        \E r \in {fy_document_tag_directive_remove(heap, d, handle)} :
            /\ heap' = r.h
            /\ last' = Call("td_remove", r.r, d, handle)
    /\ phase' = "api"
    /\ ops' = ops + 1
    /\ UNCHANGED <<input, fyd, qsortTies, uninit>>

\* fy_node_set_tag
NodeSetTag ==
    /\ phase = "api"
    /\ ops < MaxTagOps
    /\ \E fyn \in LiveNodes(heap), data \in TagTexts :
        \E r \in {fy_node_set_tag(heap, fyn, data)} :
            /\ heap' = r.h
            /\ last' = Call("set_tag", r.r, fyn, data)
    /\ phase' = "api"
    /\ ops' = ops + 1
    /\ UNCHANGED <<input, fyd, qsortTies, uninit>>

\* a session on documents made through the API, or on a built document
Calling == phase \in {"api", "built"} /\ ops < (IF phase = "api" THEN MaxTagOps ELSE MaxOps)

\* fy_node_copy of a node into a document; the caller holds the copy
NodeCopy ==
    /\ Calling
    /\ \E d \in 1..Len(heap.docs), fyn \in LiveNodes(heap) :
        \E c \in {fy_node_copy(heap, d, fyn)} :
            /\ heap' = c.h
            /\ last' = Call("copy", c.r, d, fyn)
    /\ phase' = phase
    /\ ops' = ops + 1
    /\ UNCHANGED <<input, fyd, qsortTies, uninit>>

\* fy_node_free of a node the caller holds
NodeFree ==
    /\ Calling
    /\ \E fyn \in DetachedNodes(heap) :
        /\ heap' = fy_node_free(heap, fyn)
        /\ last' = Call("free", 0, fyn, NULL)
    /\ phase' = phase
    /\ ops' = ops + 1
    /\ UNCHANGED <<input, fyd, qsortTies, uninit>>

\* fy_node_insert of the root of the other document, or of a node the caller
\* holds
CrossInsert ==
    /\ phase = "api"
    /\ ops < MaxTagOps
    /\ \E d \in 1..Len(heap.docs) :
        \E fyn_to \in DocNodes(heap, d),
           fyn_from \in {n \in LiveNodes(heap) :
                            /\ heap.nodes[n].fyd # d
                            /\ \/ n = heap.docs[heap.nodes[n].fyd].root
                               \/ n \in DetachedNodes(heap)} :
            \E r \in {fy_node_insert(heap, fyn_to, fyn_from)} :
                /\ heap' = r.h
                /\ phase' = ApiPhaseAfter(r.h)
                /\ last' = Call("insert", r.r, fyn_to, fyn_from)
    /\ ops' = ops + 1
    /\ UNCHANGED <<input, fyd, qsortTies, uninit>>

NextTags ==
    TagDirectiveAdd \/ TagDirectiveRemove \/ NodeSetTag \/ NodeCopy \/ NodeFree \/ CrossInsert

SpecTags == InitTags /\ [][NextTags]_vars

(***************************************************************************)
(* A built document with anchors, and the calls that move or free nodes    *)
(***************************************************************************)
\* [&a b, *a]   {&a b: &b [1]}   [&ba {a: 1}, {<<: *ba, b: 2}]   &a [b, {a: &b 1}]
DocsAnchors ==
    {YSeq(<<YAnchor(tA, YS(tB)), YAlias(tA)>>),
     YM(<<<<YAnchor(tA, YS(tB)), YAnchor(tB, YSeq(<<YS(t1)>>))>>>>),
     YSeq(<<YAnchor(tB \o tA, YM(<<<<YS(tA), YS(t1)>>>>)),
            YM(<<<<YS(tMerge), RefD>>, <<YS(tB), YS(t2)>>>>)>>),
     YAnchor(tA, YSeq(<<YS(tB), YM(<<<<YS(tA), YAnchor(tB, YS(t1))>>>>)>>))}

\* the fragments fy_document_insert_at is given: &c a, &a [a], [&c a, b]
FragmentsAnchored ==
    {YAnchor(tC, YS(tA)), YAnchor(tA, YSeq(<<YS(tA)>>)), YSeq(<<YAnchor(tC, YS(tA)), YS(tB)>>)}

InitAnchors == InitWith(DocsAnchors)

\* the pairs of the mappings of the document d
DocPairs(h, d) == UNION {Range(h.nodes[m].map) : m \in DocMappings(h, d)}

\* fy_document_insert_at: [h, r]; the source is freed after the insertion x
fy_document_insert_at(x, fyn) == [h |-> fy_node_free(x.h, fyn), r |-> x.r]

\* fy_document_insert_at of a node made by fy_node_build_from_string
InsertAt ==
    /\ phase = "built"
    /\ ops < MaxOps
    /\ \E fyn_to \in DocNodes(heap, fyd), y \in FragmentsAnchored :
        \E b \in {fy_document_load_node(heap, fyd, Stream(y))} :
            \E r \in {fy_document_insert_at(fy_node_insert(b.h, fyn_to, b.r), b.r)} :
                /\ heap' = r.h
                /\ phase' = PhaseAfter(r.h, fyd)
                /\ last' = Call("insert_at", r.r, fyn_to, b.r)
    /\ ops' = ops + 1
    /\ UNCHANGED <<input, fyd, qsortTies, uninit>>

\* fy_node_sequence_remove of a node of the document from one of its sequences
SequenceRemove ==
    /\ phase = "built"
    /\ ops < MaxOps
    /\ \E fyn_seq \in DocSequences(heap, fyd), fyn \in DocNodes(heap, fyd) :
        \E r \in {fy_node_sequence_remove(heap, fyn_seq, fyn)} :
            /\ heap' = r.h
            /\ phase' = PhaseAfter(r.h, fyd)
            /\ last' = Call("seq_remove", r.r, fyn_seq, fyn)
    /\ ops' = ops + 1
    /\ UNCHANGED <<input, fyd, qsortTies, uninit>>

\* fy_node_mapping_remove of a pair of the document from one of its mappings
MappingRemove ==
    /\ phase = "built"
    /\ ops < MaxOps
    /\ \E fyn_map \in DocMappings(heap, fyd), fynp \in DocPairs(heap, fyd) :
        \E r \in {fy_node_mapping_remove(heap, fyn_map, fynp)} :
            /\ heap' = r.h
            /\ phase' = PhaseAfter(r.h, fyd)
            /\ last' = Call("map_remove", r.r, fyn_map, fynp)
    /\ ops' = ops + 1
    /\ UNCHANGED <<input, fyd, qsortTies, uninit>>

\* fy_node_mapping_remove_by_key with a key made by fy_node_create_scalar
MappingRemoveByKey ==
    /\ phase = "built"
    /\ ops < MaxOps
    /\ \E fyn_map \in DocMappings(heap, fyd), text \in NewTexts :
        \E k \in {fy_node_create_scalar(heap, fyd, text)} :
            \E r \in {fy_node_mapping_remove_by_key(k, fyn_map, LastNode(k))} :
                /\ heap' = r.h
                /\ phase' = PhaseAfter(r.h, fyd)
                /\ last' = Call("map_remove_by_key", r.r, fyn_map, LastNode(k))
    /\ ops' = ops + 1
    /\ UNCHANGED <<input, fyd, qsortTies, uninit>>

\* fy_node_pair_set_key with a key made by fy_node_create_scalar
PairSetKey ==
    /\ phase = "built"
    /\ ops < MaxOps
    /\ \E fynp \in DocPairs(heap, fyd), text \in NewTexts :
        \E k \in {fy_node_create_scalar(heap, fyd, text)} :
            /\ heap' = fy_node_pair_set_key(k, fynp, LastNode(k))
            /\ last' = Call("set_key", 0, fynp, LastNode(k))
    /\ phase' = phase
    /\ ops' = ops + 1
    /\ UNCHANGED <<input, fyd, qsortTies, uninit>>

\* fy_node_pair_set_value with a value made by fy_node_create_scalar
PairSetValue ==
    /\ phase = "built"
    /\ ops < MaxOps
    /\ \E fynp \in DocPairs(heap, fyd), text \in NewTexts :
        \E k \in {fy_node_create_scalar(heap, fyd, text)} :
            /\ heap' = fy_node_pair_set_value(k, fynp, LastNode(k))
            /\ last' = Call("set_value", 0, fynp, LastNode(k))
    /\ phase' = phase
    /\ ops' = ops + 1
    /\ UNCHANGED <<input, fyd, qsortTies, uninit>>

\* fy_node_set_anchor on a node of the document or one the caller holds
NodeSetAnchor ==
    /\ phase = "built"
    /\ ops < MaxOps
    /\ \E fyn \in DocNodes(heap, fyd) \cup DetachedNodes(heap), text \in {tA, tC} :
        \E r \in {fy_node_set_anchor(heap, fyn, text)} :
            /\ heap' = r.h
            /\ last' = Call("set_anchor", r.r, fyn, text)
    /\ phase' = phase
    /\ ops' = ops + 1
    /\ UNCHANGED <<input, fyd, qsortTies, uninit>>

\* fy_node_remove_anchor
NodeRemoveAnchor ==
    /\ phase = "built"
    /\ ops < MaxOps
    /\ \E fyn \in DocNodes(heap, fyd) \cup DetachedNodes(heap) :
        \E r \in {fy_node_remove_anchor(heap, fyn)} :
            /\ heap' = r.h
            /\ last' = Call("remove_anchor", r.r, fyn, NULL)
    /\ phase' = phase
    /\ ops' = ops + 1
    /\ UNCHANGED <<input, fyd, qsortTies, uninit>>

NextAnchors ==
    \/ Build \/ Resolve \/ NodeCopy \/ NodeFree \/ InsertAt
    \/ SequenceRemove \/ MappingRemove \/ MappingRemoveByKey
    \/ PairSetKey \/ PairSetValue \/ NodeSetAnchor \/ NodeRemoveAnchor

SpecAnchors == InitAnchors /\ [][NextAnchors]_vars

\* a built document and nothing but fy_node_insert and fy_document_insert_at
NextInsert == Build \/ NodeInsert \/ InsertAt

SpecInsert == InitApi /\ [][NextInsert]_vars

(***************************************************************************)
(* Building with and without FYPCF_COLLECT_DIAG                            *)
(***************************************************************************)
\* an anchor name used twice: &a [&a b]   &a {b: &a c}   [&a [b], &a {b: c}]
\* {&a [b]: &a c}   [&a b, &b c, &a [d]]
DocsDupAnchors ==
    {YAnchor(tA, YSeq(<<YAnchor(tA, YS(tB))>>)),
     YAnchor(tA, YM(<<<<YS(tB), YAnchor(tA, YS(tC))>>>>)),
     YSeq(<<YAnchor(tA, YSeq(<<YS(tB)>>)), YAnchor(tA, YM(<<<<YS(tB), YS(tC)>>>>))>>),
     YM(<<<<YAnchor(tA, YSeq(<<YS(tB)>>)), YAnchor(tA, YS(tC))>>>>),
     YSeq(<<YAnchor(tA, YS(tB)), YAnchor(tB, YS(tC)), YAnchor(tA, YSeq(<<YS(t1)>>))>>)}

\* a stream without a document
EmptyStream == <<NoEvent("STREAM_START"), NoEvent("STREAM_END")>>

InitBuild ==
    /\ heap = EmptyHeap
    /\ input \in {Stream(y) : y \in Docs \cup DocsDupAnchors} \cup {EmptyStream}
    /\ phase = "start"
    /\ fyd = NULL
    /\ ops = 0
    /\ last = Call("none", 0, NULL, NULL)
    /\ qsortTies \in {"stable", "unstable"}
    /\ uninit \in {"crash", "stray"}

\* fy_document_build_from_string, _file or _fp: setup is what the parser_setup
\* callback returns for the caller's string, file or stream
BuildInternal ==
    /\ phase = "start"
    /\ \E setup \in {0, -1}, collect_diag \in BOOLEAN, resolve_document \in BOOLEAN :
        \E r \in {fy_document_build_internal(heap, setup, input, collect_diag,
                                             resolve_document)} :
            /\ heap' = r.h
            /\ fyd' = r.fyd
            /\ phase' = PhaseAfter(r.h, r.fyd)
            /\ last' = Call("build_internal", IF r.fyd = NULL THEN -1 ELSE 0, collect_diag,
                            [setup |-> setup, resolve_document |-> resolve_document])
    /\ UNCHANGED <<input, ops, qsortTies, uninit>>

NextBuild == BuildInternal \/ Resolve

SpecBuild == InitBuild /\ [][NextBuild]_vars

(***************************************************************************)
(* Loading from event streams that stop early or hold a wrong event        *)
(***************************************************************************)
\* [a, {b: c}]   {a: [b], c: d}   {[a]: b}   a
DocsLoad ==
    {YSeq(<<YS(tA), YM(<<<<YS(tB), YS(tC)>>>>)>>),
     YM(<<<<YS(tA), YSeq(<<YS(tB)>>)>>, <<YS(tC), YS(t1)>>>>),
     YM(<<<<YSeq(<<YS(tA)>>), YS(tB)>>>>),
     YS(tA)}

\* the stream up to the event where the production of events stopped
Truncations(s) == {SubSeq(s, 1, k) : k \in 0..Len(s)}

WrongTypes == {"DOCUMENT_START", "DOCUMENT_END", "SEQUENCE_END", "MAPPING_END", "STREAM_END"}

\* an event after the DOCUMENT-START replaced by one of another type
Replacements(s) == {[s EXCEPT ![i] = NoEvent(t)] : i \in 3..Len(s), t \in WrongTypes}

\* an event missing from the stream
Omissions(s) == {SubSeq(s, 1, i - 1) \o SubSeq(s, i + 1, Len(s)) : i \in 1..Len(s)}

StreamsLoad ==
    UNION {Truncations(Stream(y)) \cup Replacements(Stream(y)) \cup Omissions(Stream(y)) :
               y \in DocsLoad}

InitLoad ==
    /\ heap = EmptyHeap
    /\ input \in StreamsLoad
    /\ phase = "start"
    /\ fyd = NULL
    /\ ops = 0
    /\ last = Call("none", 0, NULL, NULL)
    /\ qsortTies \in {"stable", "unstable"}
    /\ uninit \in {"crash", "stray"}

NextLoad == Build \/ Resolve

SpecLoad == InitLoad /\ [][NextLoad]_vars

(***************************************************************************)
(* Sequences and mappings made, changed, counted and indexed by the API    *)
(***************************************************************************)
MaxSeqOps == 2
MaxItems == 2
MaxPairs == 3
MaxIndex == 4

SeqTexts == <<tA, tB, tC>>

\* n scalars are appended to the sequence
RECURSIVE SeqFill(_, _, _, _)
SeqFill(h, d, fyn_seq, n) ==
    IF n = 0 THEN h
    ELSE LET h1 == fy_node_create_scalar(SeqFill(h, d, fyn_seq, n - 1), d, SeqTexts[n])
         IN  (fy_node_sequence_append(h1, fyn_seq, LastNode(h1))).h

\* m pairs are appended to the mapping
RECURSIVE MapFill(_, _, _, _)
MapFill(h, d, fyn_map, m) ==
    IF m = 0 THEN h
    ELSE LET h1 == fy_node_create_scalar(MapFill(h, d, fyn_map, m - 1), d, SeqTexts[m])
             h2 == fy_node_create_scalar(h1, d, t1)
         IN  (fy_node_mapping_append(h2, fyn_map, LastNode(h1), LastNode(h2))).h

\* a document whose root is a sequence of n scalars followed by a mapping of
\* m pairs, and a scalar that the caller holds
SeqHeap(n, m) ==
    LET h0 == fy_document_create(EmptyHeap)
        h1 == fy_node_create_sequence(h0, 1)
        h2 == SeqFill(fy_document_set_root(h1, 1, LastNode(h1)), 1, LastNode(h1), n)
        h3 == fy_node_create_mapping(h2, 1)
        h4 == MapFill((fy_node_sequence_append(h3, LastNode(h1), LastNode(h3))).h,
                      1, LastNode(h3), m)
    IN  fy_node_create_scalar(h4, 1, t5)

InitSeq ==
    /\ heap \in {SeqHeap(n, m) : n \in 0..MaxItems, m \in {0, MaxPairs}}
    /\ input = <<>>
    /\ phase = "api"
    /\ fyd = 1
    /\ ops = 0
    /\ last = Call("none", 0, NULL, NULL)
    /\ qsortTies = "stable"
    /\ uninit = "stray"

SeqCalling == phase = "api" /\ ops < MaxSeqOps

\* the containers and the marks a caller may pass: NULL, or a node that is not
\* the key or the value of a pair (a root, an item, a node the caller holds)
SeqArgs(h) ==
    {NULL} \cup {n \in LiveNodes(h) :
                    \A p \in 1..Len(h.pairs) : h.pairs[p].key # n /\ h.pairs[p].value # n}

\* the nodes a caller may hand over: the ones it holds, or NULL
SeqNew(h, fyn_seq) == (DetachedNodes(h) \ {fyn_seq}) \cup {NULL}

\* fy_node_create_sequence
SeqCreate ==
    /\ SeqCalling
    /\ heap' = fy_node_create_sequence(heap, fyd)
    /\ last' = Call("seq_create", LastNode(heap) + 1, fyd, NULL)
    /\ phase' = "api"
    /\ ops' = ops + 1
    /\ UNCHANGED <<input, fyd, qsortTies, uninit>>

\* fy_node_sequence_append
SeqAppend ==
    /\ SeqCalling
    /\ \E fyn_seq \in SeqArgs(heap) : \E fyn \in SeqNew(heap, fyn_seq) :
        \E r \in {fy_node_sequence_append(heap, fyn_seq, fyn)} :
            /\ heap' = r.h
            /\ phase' = ApiPhaseAfter(r.h)
            /\ last' = Call("seq_append", r.r, fyn_seq, <<NULL, fyn>>)
    /\ ops' = ops + 1
    /\ UNCHANGED <<input, fyd, qsortTies, uninit>>

\* fy_node_sequence_prepend
SeqPrepend ==
    /\ SeqCalling
    /\ \E fyn_seq \in SeqArgs(heap) : \E fyn \in SeqNew(heap, fyn_seq) :
        \E r \in {fy_node_sequence_prepend(heap, fyn_seq, fyn)} :
            /\ heap' = r.h
            /\ phase' = ApiPhaseAfter(r.h)
            /\ last' = Call("seq_prepend", r.r, fyn_seq, <<NULL, fyn>>)
    /\ ops' = ops + 1
    /\ UNCHANGED <<input, fyd, qsortTies, uninit>>

\* fy_node_sequence_insert_before
SeqInsertBefore ==
    /\ SeqCalling
    /\ \E fyn_seq \in SeqArgs(heap), fyn_mark \in SeqArgs(heap) :
        \E fyn \in SeqNew(heap, fyn_seq) :
            \E r \in {fy_node_sequence_insert_before(heap, fyn_seq, fyn_mark, fyn)} :
                /\ heap' = r.h
                /\ phase' = ApiPhaseAfter(r.h)
                /\ last' = Call("seq_insert_before", r.r, fyn_seq, <<fyn_mark, fyn>>)
    /\ ops' = ops + 1
    /\ UNCHANGED <<input, fyd, qsortTies, uninit>>

\* fy_node_sequence_insert_after
SeqInsertAfter ==
    /\ SeqCalling
    /\ \E fyn_seq \in SeqArgs(heap), fyn_mark \in SeqArgs(heap) :
        \E fyn \in SeqNew(heap, fyn_seq) :
            \E r \in {fy_node_sequence_insert_after(heap, fyn_seq, fyn_mark, fyn)} :
                /\ heap' = r.h
                /\ phase' = ApiPhaseAfter(r.h)
                /\ last' = Call("seq_insert_after", r.r, fyn_seq, <<fyn_mark, fyn>>)
    /\ ops' = ops + 1
    /\ UNCHANGED <<input, fyd, qsortTies, uninit>>

\* fy_node_sequence_remove
SeqRemove ==
    /\ SeqCalling
    /\ \E fyn_seq \in SeqArgs(heap), fyn \in SeqArgs(heap) :
        \E r \in {fy_node_sequence_remove(heap, fyn_seq, fyn)} :
            /\ heap' = r.h
            /\ phase' = ApiPhaseAfter(r.h)
            /\ last' = Call("seq_remove", r.r, fyn_seq, <<NULL, fyn>>)
    /\ ops' = ops + 1
    /\ UNCHANGED <<input, fyd, qsortTies, uninit>>

\* fy_node_sequence_item_count
SeqItemCount ==
    /\ SeqCalling
    /\ \E fyn \in SeqArgs(heap) :
        last' = Call("seq_item_count", fy_node_sequence_item_count(heap, fyn), fyn, NULL)
    /\ ops' = ops + 1
    /\ UNCHANGED <<heap, input, phase, fyd, qsortTies, uninit>>

\* fy_node_mapping_item_count
MapItemCount ==
    /\ SeqCalling
    /\ \E fyn \in SeqArgs(heap) :
        last' = Call("map_item_count", fy_node_mapping_item_count(heap, fyn), fyn, NULL)
    /\ ops' = ops + 1
    /\ UNCHANGED <<heap, input, phase, fyd, qsortTies, uninit>>

\* fy_node_sequence_get_by_index
SeqGetByIndex ==
    /\ SeqCalling
    /\ \E fyn \in SeqArgs(heap), index \in (-MaxIndex)..MaxIndex :
        last' = Call("seq_get_by_index", fy_node_sequence_get_by_index(heap, fyn, index),
                     fyn, index)
    /\ ops' = ops + 1
    /\ UNCHANGED <<heap, input, phase, fyd, qsortTies, uninit>>

\* fy_node_mapping_get_by_index
MapGetByIndex ==
    /\ SeqCalling
    /\ \E fyn \in SeqArgs(heap), index \in (-MaxIndex)..MaxIndex :
        last' = Call("map_get_by_index", fy_node_mapping_get_by_index(heap, fyn, index),
                     fyn, index)
    /\ ops' = ops + 1
    /\ UNCHANGED <<heap, input, phase, fyd, qsortTies, uninit>>

NextSeq ==
    \/ SeqCreate \/ SeqAppend \/ SeqPrepend \/ SeqInsertBefore \/ SeqInsertAfter \/ SeqRemove
    \/ SeqItemCount \/ MapItemCount \/ SeqGetByIndex \/ MapGetByIndex

SpecSeq == InitSeq /\ [][NextSeq]_vars

(***************************************************************************)
(* The editing calls with any argument, under both outcomes of a read the  *)
(* program must not make                                                   *)
(***************************************************************************)
InitArgs ==
    /\ heap \in {SeqHeap(n, m) : n \in 0..MaxItems, m \in {0, MaxPairs}}
    /\ input = <<>>
    /\ phase = "api"
    /\ fyd = 1
    /\ ops = 0
    /\ last = Call("none", 0, NULL, NULL)
    /\ qsortTies = "stable"
    /\ uninit \in {"crash", "stray"}

\* the pairs a caller may pass: any pair made so far, or NULL
PairArgs(h) == {NULL} \cup {p \in 1..Len(h.pairs) : ~h.pairs[p].freed}

\* fy_node_mapping_remove
MapRemove ==
    /\ SeqCalling
    /\ \E fyn_map \in SeqArgs(heap), fynp \in PairArgs(heap) :
        \E r \in {fy_node_mapping_remove(heap, fyn_map, fynp)} :
            /\ heap' = r.h
            /\ phase' = ApiPhaseAfter(r.h)
            /\ last' = Call("map_remove", r.r, fyn_map, <<NULL, fynp>>)
    /\ ops' = ops + 1
    /\ UNCHANGED <<input, fyd, qsortTies, uninit>>

NextArgs == SeqInsertBefore \/ SeqInsertAfter \/ SeqRemove \/ MapRemove

SpecArgs == InitArgs /\ [][NextArgs]_vars

(***************************************************************************)
(* Documents made children of documents, and destroyed                     *)
(***************************************************************************)
MaxDocs == 3
MaxDocOps == 3

\* n documents made by fy_document_create, each with a scalar as its root
RECURSIVE DocsHeap(_)
DocsHeap(n) ==
    IF n = 0 THEN EmptyHeap
    ELSE LET h1 == fy_document_create(DocsHeap(n - 1))
             h2 == fy_node_create_scalar(h1, LastDoc(h1), SeqTexts[n])
         IN  fy_document_set_root(h2, LastDoc(h1), LastNode(h2))

InitDocs ==
    /\ heap = DocsHeap(MaxDocs)
    /\ input = <<>>
    /\ phase = "api"
    /\ fyd = 1
    /\ ops = 0
    /\ last = Call("none", 0, NULL, NULL)
    /\ qsortTies = "stable"
    /\ uninit = "stray"

\* the documents that are not destroyed
LiveDocs(h) == {d \in 1..Len(h.docs) : ~h.docs[d].destroyed}

\* fy_document_set_parent
DocSetParent ==
    /\ phase = "api"
    /\ ops < MaxDocOps
    /\ \E d \in LiveDocs(heap) \cup {NULL}, fyd_child \in LiveDocs(heap) \cup {NULL} :
        \E r \in {fy_document_set_parent(heap, d, fyd_child)} :
            /\ heap' = r.h
            /\ phase' = ApiPhaseAfter(r.h)
            /\ last' = Call("set_parent", r.r, d, fyd_child)
    /\ ops' = ops + 1
    /\ UNCHANGED <<input, fyd, qsortTies, uninit>>

\* fy_document_destroy of a document the caller owns: one that has no parent,
\* or one that is below itself
DocDestroy ==
    /\ phase = "api"
    /\ ops < MaxDocOps
    /\ \E d \in LiveDocs(heap) :
        /\ heap.docs[d].parent = NULL \/ d \in DocDescendants(heap, d)
        /\ \E h \in {fy_document_destroy(heap, d)} :
            /\ heap' = h
            /\ phase' = ApiPhaseAfter(h)
            /\ last' = Call("doc_destroy", 0, d, NULL)
    /\ ops' = ops + 1
    /\ UNCHANGED <<input, fyd, qsortTies, uninit>>

NextDocs == DocSetParent \/ DocDestroy

SpecDocs == InitDocs /\ [][NextDocs]_vars

(***************************************************************************)
(* What a node holds: the structure below it, without node identities      *)
(***************************************************************************)
RECURSIVE Content(_, _)
RECURSIVE ContentItems(_, _)
RECURSIVE ContentPairs(_, _)

ContentItems(h, items) ==
    IF items = <<>> THEN <<>> ELSE <<Content(h, items[1])>> \o ContentItems(h, Tail(items))

ContentPairs(h, ps) ==
    IF ps = <<>> THEN <<>>
    ELSE <<<<Content(h, h.pairs[ps[1]].key), Content(h, h.pairs[ps[1]].value)>>>>
         \o ContentPairs(h, Tail(ps))

\* type, style, tag token, and the scalar token or the contents of the items / pairs
Content(h, fyn) ==
    IF fyn = NULL THEN [type |-> "null", style |-> "any", tag |-> NULL, scalar |-> NULL,
                        kids |-> <<>>]
    ELSE LET n == h.nodes[fyn]
         IN  [type |-> n.type, style |-> n.style, tag |-> n.tag, scalar |-> n.scalar,
              kids |-> IF n.type = "sequence" THEN ContentItems(h, n.seq)
                       ELSE IF n.type = "mapping" THEN ContentPairs(h, n.map)
                       ELSE <<>>]

\* the same with the text of the scalars in place of their tokens
RECURSIVE Text(_, _)
RECURSIVE TextItems(_, _)
RECURSIVE TextPairs(_, _)

TextItems(h, items) ==
    IF items = <<>> THEN <<>> ELSE <<Text(h, items[1])>> \o TextItems(h, Tail(items))

TextPairs(h, ps) ==
    IF ps = <<>> THEN <<>>
    ELSE <<<<Text(h, h.pairs[ps[1]].key), Text(h, h.pairs[ps[1]].value)>>>>
         \o TextPairs(h, Tail(ps))

Text(h, fyn) ==
    IF fyn = NULL THEN <<"null">>
    ELSE LET n == h.nodes[fyn]
         IN  IF n.type = "scalar"
             THEN <<IF n.style = "alias" THEN "alias" ELSE "scalar",
                    fy_token_get_text(h, n.scalar)>>
             ELSE IF n.type = "sequence" THEN <<"sequence", TextItems(h, n.seq)>>
             ELSE <<"mapping", TextPairs(h, n.map)>>

(***************************************************************************)
(* Properties                                                              *)
(***************************************************************************)
Keys(h, fyn_map) == [i \in 1..Len(h.nodes[fyn_map].map) |-> h.pairs[h.nodes[fyn_map].map[i]].key]

\* two pairs of the mapping have keys that fy_node_compare finds equal
HasEqualKeys(h, fyn_map) ==
    \E i, j \in 1..Len(h.nodes[fyn_map].map) :
        i < j /\ fy_node_compare(h, Keys(h, fyn_map)[i], Keys(h, fyn_map)[j])

\* C1: in every state of a built document reached through fy_document_resolve,
\* fy_node_mapping_append, fy_node_mapping_prepend and fy_node_insert, no mapping
\* of the document has two pairs whose keys compare equal under fy_node_compare.
C1_NoEqualKeys ==
    phase = "built" => \A m \in DocMappings(heap, fyd) : ~HasEqualKeys(heap, m)

\* the diagnostics hold msg, pointing at mark
Reported(h, msg, mark) == \E i \in 1..Len(h.diag) : h.diag[i] = [msg |-> msg, mark |-> mark]

\* C2: when the builder has loaded a key that compares equal to a key already
\* added to the same mapping, the build has failed: fy_parse_load_document has
\* returned no document, and a "duplicate key" error points at the later key.
C2_DuplicateKeyFailsBuild ==
    (phase # "start" /\ heap.dupkey # NULL) =>
        /\ phase = "failed"
        /\ fyd = NULL
        /\ Reported(heap, "duplicate key", heap.dupkey)

\* the parents fy_resolve_parent_node leaves below the node fyn
ParentsBelow(h, fyn) ==
    /\ h.nodes[fyn].type = "sequence" =>
           \A i \in 1..Len(h.nodes[fyn].seq) : h.nodes[h.nodes[fyn].seq[i]].parent = fyn
    /\ h.nodes[fyn].type = "mapping" =>
           \A i \in 1..Len(h.nodes[fyn].map) :
               LET fynp == h.pairs[h.nodes[fyn].map[i]]
               IN  /\ fynp.parent = fyn
                   /\ fynp.key # NULL => h.nodes[fynp.key].parent = NULL
                   /\ fynp.value # NULL => h.nodes[fynp.value].parent = fyn

\* C3: in a document returned by fy_parse_load_document, and again once
\* fy_document_resolve has run on it, the root's parent is NULL, every key's
\* parent is NULL, every value's parent is its mapping, every item's parent is
\* its sequence and every pair's parent is its mapping.
C3_ParentsResolved ==
    (phase = "built" /\ last.op \in {"build", "resolve"}) =>
        /\ heap.docs[fyd].root # NULL => heap.nodes[heap.docs[fyd].root].parent = NULL
        /\ \A fyn \in DocNodes(heap, fyd) : ParentsBelow(heap, fyn)

\* fy_document_resolve has copied a mapping: two mappings of the document have
\* keys that are distinct nodes on one token
C3_Witness ==
    /\ phase = "built"
    /\ last.op = "resolve"
    /\ \E m1, m2 \in DocMappings(heap, fyd) :
           /\ m1 # m2
           /\ heap.nodes[m2].parent # NULL
           /\ \E i \in 1..Len(heap.nodes[m1].map), j \in 1..Len(heap.nodes[m2].map) :
                  /\ Keys(heap, m1)[i] # Keys(heap, m2)[j]
                  /\ heap.nodes[Keys(heap, m1)[i]].scalar = heap.nodes[Keys(heap, m2)[j]].scalar
                  /\ heap.nodes[Keys(heap, m1)[i]].scalar # NULL

\* a document fy_document_resolve has resolved
Resolved ==
    /\ phase = "built"
    /\ \/ last.op = "resolve" /\ last.rc = 0
       \/ last.op = "build" /\ last.arg = TRUE

\* the nodes fy_node_compare is applied to: those of the document, and NULL
Comparable == DocNodes(heap, fyd) \cup {NULL}

\* C4: on the nodes of a resolved document, NULL included, fy_node_compare is
\* reflexive, symmetric and transitive, and it reads no bad pointer on the way.
C4_CompareIsEquivalence ==
    Resolved =>
        \A a, b \in Comparable :
            /\ NodeCompare(heap, a, b) # "fault"
            /\ fy_node_compare(heap, a, a)
            /\ fy_node_compare(heap, a, b) => fy_node_compare(heap, b, a)
            /\ \A c \in Comparable :
                   (fy_node_compare(heap, a, b) /\ fy_node_compare(heap, b, c))
                       => fy_node_compare(heap, a, c)

\* a resolved document with three distinct mappings, of two pairs each, that
\* compare equal, and NULL comparing equal to an empty scalar
C4_Witness ==
    /\ Resolved
    /\ \E a, b, c \in DocMappings(heap, fyd) :
           /\ a # b /\ b # c /\ a # c
           /\ Len(heap.nodes[a].map) = 2
           /\ fy_node_compare(heap, a, b) /\ fy_node_compare(heap, b, c)
    /\ \E e \in DocNodes(heap, fyd) : fy_node_compare(heap, NULL, e)

\* the two mappings hold the same pairs: as many, and each pair of one has a
\* pair of the other with an equal key and an equal value
SamePairs(h, m1, m2) ==
    LET p1 == h.nodes[m1].map
        p2 == h.nodes[m2].map
        Same(x, y) == /\ fy_node_compare(h, h.pairs[x].key, h.pairs[y].key)
                      /\ fy_node_compare(h, h.pairs[x].value, h.pairs[y].value)
    IN  /\ Len(p1) = Len(p2)
        /\ \A i \in 1..Len(p1) : \E j \in 1..Len(p2) : Same(p1[i], p2[j])
        /\ \A j \in 1..Len(p2) : \E i \in 1..Len(p1) : Same(p1[i], p2[j])


\* C5: two mappings holding the same pairs compare equal whatever the order of
\* insertion and the kind of the keys; two sequences compare equal only when
\* they have the same length and equal items at every position.
C5_OrderIndependentEquality ==
    phase = "built" =>
        /\ \A m1, m2 \in DocMappings(heap, fyd) :
               SamePairs(heap, m1, m2) => fy_node_compare(heap, m1, m2)
        /\ \A s1, s2 \in DocSequences(heap, fyd) :
               fy_node_compare(heap, s1, s2) =>
                   /\ Len(heap.nodes[s1].seq) = Len(heap.nodes[s2].seq)
                   /\ \A i \in 1..Len(heap.nodes[s1].seq) :
                          fy_node_compare(heap, heap.nodes[s1].seq[i], heap.nodes[s2].seq[i])

\* the order of two byte strings, byte by byte, a proper prefix first
RECURSIVE LexCmp(_, _)
LexCmp(a, b) ==
    IF a = <<>> /\ b = <<>> THEN 0
    ELSE IF a = <<>> THEN -1
    ELSE IF b = <<>> THEN 1
    ELSE IF a[1] # b[1] THEN Sign(a[1] - b[1])
    ELSE LexCmp(Tail(a), Tail(b))

\* the rank of a key's kind in the default order
KindRank(h, key) ==
    IF key = NULL THEN 3
    ELSE IF h.nodes[key].type = "mapping" THEN 1
    ELSE IF h.nodes[key].type = "sequence" THEN 2
    ELSE 3

\* the order the default comparator is to give the pairs at i and j of a mapping
DefaultOrder(h, fyn_map, i, j) ==
    LET ki == Keys(h, fyn_map)[i]
        kj == Keys(h, fyn_map)[j]
    IN  IF KindRank(h, ki) # KindRank(h, kj) THEN Sign(KindRank(h, ki) - KindRank(h, kj))
        ELSE IF KindRank(h, ki) = 3 /\ LexCmp(SortKeyStr(h, h.nodes[fyn_map].map[i]).text,
                                              SortKeyStr(h, h.nodes[fyn_map].map[j]).text) # 0
             THEN LexCmp(SortKeyStr(h, h.nodes[fyn_map].map[i]).text,
                         SortKeyStr(h, h.nodes[fyn_map].map[j]).text)
        ELSE Sign(i - j)

\* C6: the default comparator puts mapping keys first, then sequence keys, then
\* scalar keys in the lexicographic order of their bytes, and breaks every tie
\* by the insertion index: two distinct pairs of a mapping never compare equal.
C6_DefaultComparatorOrder ==
    phase = "built" =>
        \A m \in DocMappings(heap, fyd) :
            \A i, j \in 1..Len(heap.nodes[m].map) :
                i # j =>
                    /\ fy_node_mapping_sort_cmp_default(heap, heap.nodes[m].map[i],
                                                        heap.nodes[m].map[j]) # 0
                    /\ Sign(fy_node_mapping_sort_cmp_default(heap, heap.nodes[m].map[i],
                                                             heap.nodes[m].map[j]))
                           = DefaultOrder(heap, m, i, j)

\* the alias nodes of the document
DocAliases(h, d) == {n \in DocNodes(h, d) : fy_node_is_alias(h, n)}

\* the node the alias names, NULL when its anchor is not registered
AliasTarget(h, d, fyn) == fy_document_lookup_anchor_by_token(h, d, h.nodes[fyn].scalar).fyn

\* the nodes of the merge pairs of the document: their keys, and all that is
\* below their values
MergePairNodes(h, d) ==
    UNION {UNION {Reach(h, h.pairs[h.nodes[m].map[i]].key)
                  \cup Reach(h, h.pairs[h.nodes[m].map[i]].value) :
                      i \in {j \in 1..Len(h.nodes[m].map) :
                                 fy_node_pair_is_merge_key(h, h.nodes[m].map[j])}} :
               m \in DocMappings(h, d)}

\* resolving the alias fyn in the heap h puts a deep copy of its target in its
\* place: the type, style, tag and content of the target as they are in h, on
\* the target's tokens, in nodes that are all new
ResolvesToDeepCopy(h, d, fyn) ==
    LET r == fy_resolve_alias(h, d, fyn)
    IN  /\ r.r = 0
        /\ Content(r.h, fyn) = Content(h, AliasTarget(h, d, fyn))
        /\ \A n \in Reach(r.h, fyn) \ {fyn} : n > Len(h.nodes)
        /\ r.h.nodes[fyn].parent = h.nodes[fyn].parent

\* a step of fy_document_resolve that returns
ResolveStep == phase = "built" /\ last'.op = "resolve" /\ phase' = "built"

\* what a resolve step does to the alias fyn of the document
ReplacedInPlace(fyn) ==
    /\ fyn \in DocNodes(heap', fyd)
    /\ ~fy_node_is_alias(heap', fyn)
    /\ heap'.nodes[fyn].type = heap.nodes[AliasTarget(heap, fyd, fyn)].type
    /\ heap'.nodes[fyn].style = heap.nodes[AliasTarget(heap, fyd, fyn)].style
    /\ heap'.nodes[fyn].tag = heap.nodes[AliasTarget(heap, fyd, fyn)].tag
    /\ ResolvesToDeepCopy(heap, fyd, fyn)

\* a resolve step returns an error when an alias of the document names an
\* anchor that is not registered
UndefinedAliasFails ==
    (\E fyn \in DocAliases(heap, fyd) : AliasTarget(heap, fyd, fyn) = NULL) => last'.rc # 0

MergeIndex(h, fyn_map) ==
    LET m == h.nodes[fyn_map].map
    IN  IF \E i \in 1..Len(m) : fy_node_pair_is_merge_key(h, m[i])
        THEN CHOOSE i \in 1..Len(m) : fy_node_pair_is_merge_key(h, m[i])
        ELSE 0

\* the mappings a merge value refers to, in the order it names them
MergeSources(h, d, fynv) ==
    IF fy_node_is_alias(h, fynv) THEN <<fy_alias_get_merge_mapping(h, d, fynv)>>
    ELSE [i \in 1..Len(h.nodes[fynv].seq) |->
              fy_alias_get_merge_mapping(h, d, h.nodes[fynv].seq[i])]

\* the pairs of the source mappings, source after source
RECURSIVE SourcePairs(_, _)
SourcePairs(h, ms) ==
    IF ms = <<>> THEN <<>> ELSE h.nodes[ms[1]].map \o SourcePairs(h, Tail(ms))

\* the pairs of the sources a merge copies into the target fyn, in the order
\* they stand in after the merge pair: a pair is copied when its key equals no
\* key of the target and no key copied before it, and it is put right after
\* the merge pair, in front of the pairs copied before it
RECURSIVE Merged(_, _, _, _)
Merged(h, fyn, cands, acc) ==
    IF cands = <<>> THEN acc
    ELSE LET key == h.pairs[cands[1]].key
             present ==
                 \/ \E i \in 1..Len(h.nodes[fyn].map) :
                        fy_node_compare(h, Keys(h, fyn)[i], key)
                 \/ \E i \in 1..Len(acc) : fy_node_compare(h, h.pairs[acc[i]].key, key)
         IN  Merged(h, fyn, Tail(cands), IF present THEN acc ELSE <<cands[1]>> \o acc)

\* a mapping of the document whose one merge pair a resolve step processes
\* against an unchanging background: the merge value is valid, the mapping is
\* not itself inside a merge pair, and the step changes neither the text of
\* the sources nor the text of the other keys of the mapping
MergeTarget(fyn) ==
    LET i == MergeIndex(heap, fyn)
        m == heap.nodes[fyn].map
    IN  /\ i # 0
        /\ fyn \notin MergePairNodes(heap, fyd)
        /\ fy_node_pair_is_valid_merge_key(heap, fyd, m[i])
        /\ LET ms == MergeSources(heap, fyd, heap.pairs[m[i]].value)
           IN  \A k \in 1..Len(ms) : Text(heap, ms[k]) = Text(heap', ms[k])
        /\ \A j \in 1..Len(m) :
               j # i => Text(heap, heap.pairs[m[j]].key) = Text(heap', heap.pairs[m[j]].key)

\* the pair fynpn of the new heap is a deep copy of the pair fynp of the old one
CopiedPair(fynpn, fynp) ==
    /\ fynpn > Len(heap.pairs)
    /\ Text(heap', heap'.pairs[fynpn].key) = Text(heap, heap.pairs[fynp].key)
    /\ Text(heap', heap'.pairs[fynpn].value) = Text(heap, heap.pairs[fynp].value)
    /\ heap'.pairs[fynpn].key = NULL \/ heap'.pairs[fynpn].key > Len(heap.nodes)
    /\ heap'.pairs[fynpn].value = NULL \/ heap'.pairs[fynpn].value > Len(heap.nodes)

\* what the merge leaves in the target: the pairs before the merge pair, the
\* copies, the pairs after the merge pair; the kept pairs with the key and
\* value nodes they had, the merge pair gone
MergedInto(fyn) ==
    LET i   == MergeIndex(heap, fyn)
        m   == heap.nodes[fyn].map
        new == Merged(heap, fyn,
                      SourcePairs(heap, MergeSources(heap, fyd, heap.pairs[m[i]].value)), <<>>)
        n   == heap'.nodes[fyn].map
    IN  /\ Len(n) = Len(m) - 1 + Len(new)
        /\ \A j \in 1..(i - 1) : n[j] = m[j]
        /\ \A j \in 1..Len(new) : CopiedPair(n[i - 1 + j], new[j])
        /\ \A j \in (i + 1)..Len(m) : n[j - 1 + Len(new)] = m[j]
        /\ \A j \in 1..Len(m) :
               j # i => /\ heap'.pairs[m[j]].key = heap.pairs[m[j]].key
                        /\ heap'.pairs[m[j]].value = heap.pairs[m[j]].value
        /\ heap'.pairs[m[i]].freed

\* C8: when fy_document_resolve processes the merge pair of a mapping, every
\* pair of the merged mappings whose key is not yet in the target is deep-copied
\* into the target right after the merge pair, the pairs of the target keep
\* their keys, values and positions, and the merge pair is removed.
C8_MergeKeyPopulates ==
    [][ResolveStep =>
           \A fyn \in DocMappings(heap, fyd) : MergeTarget(fyn) => MergedInto(fyn)]_vars

\* the spec's example: {<<: *d, b: 3, c: 4} with d = {a: 1, b: 2} has become
\* {a: 1, b: 3, c: 4}, in that order
C8_Witness ==
    /\ phase = "built"
    /\ last.op = "resolve"
    /\ last.rc = 0
    /\ \E fyn \in DocMappings(heap, fyd) :
           Text(heap, fyn) = <<"mapping", <<<<<<"scalar", tA>>, <<"scalar", t1>>>>,
                                            <<<<"scalar", tB>>, <<"scalar", t3>>>>,
                                            <<<<"scalar", tC>>, <<"scalar", t4>>>>>>>>

\* C9: after a successful fy_document_resolve no mapping of the document,
\* copied ones included, has a pair whose key is the plain scalar "<<".
C9_NoMergeKeyLeft ==
    Resolved =>
        \A m \in DocMappings(heap, fyd) :
            \A i \in 1..Len(heap.nodes[m].map) :
                ~fy_node_pair_is_merge_key(heap, heap.nodes[m].map[i])

\* the first of the sources that has a key equal to key: its pair, NULL if none
RECURSIVE FirstWriter(_, _, _)
FirstWriter(h, ms, key) ==
    IF ms = <<>> THEN NULL
    ELSE IF fy_node_mapping_lookup_pair(h, ms[1], key) # NULL
         THEN fy_node_mapping_lookup_pair(h, ms[1], key)
    ELSE FirstWriter(h, Tail(ms), key)

\* C10: when the value of a merge pair is a sequence of aliases, a key that
\* the target lacks and several of the named mappings define gets the value of
\* the first of them in the sequence, once: a later one never overwrites it.
C10_FirstWriterWins ==
    [][ResolveStep =>
           \A fyn \in DocMappings(heap, fyd) :
               (MergeTarget(fyn)
                /\ heap.nodes[heap.pairs[heap.nodes[fyn].map[MergeIndex(heap, fyn)]].value].type
                       = "sequence") =>
                   LET m  == heap.nodes[fyn].map
                       ms == MergeSources(heap, fyd, heap.pairs[m[MergeIndex(heap, fyn)]].value)
                       n  == heap'.nodes[fyn].map
                   IN  /\ \A j \in 1..Len(n) :
                              n[j] > Len(heap.pairs) =>
                                  LET w == FirstWriter(heap', ms, heap'.pairs[n[j]].key)
                                  IN  /\ w # NULL
                                      /\ w <= Len(heap.pairs)
                                      /\ Text(heap', heap'.pairs[n[j]].value)
                                             = Text(heap, heap.pairs[w].value)
                       /\ ~HasEqualKeys(heap', fyn)
                       /\ \A k \in 1..Len(ms) : \A j \in 1..Len(heap.nodes[ms[k]].map) :
                              fy_node_mapping_lookup_pair(heap', fyn,
                                  heap.pairs[heap.nodes[ms[k]].map[j]].key) # NULL]_vars

\* <<: [*d, *e] with d = {a: 1, b: 2} and e = {b: 5, c: 4} has been merged
\* into a mapping without b: it holds b: 2, from d, and c: 4, from e
C10_Witness ==
    /\ phase = "built"
    /\ last.op = "resolve"
    /\ last.rc = 0
    /\ \E fyn \in DocMappings(heap, fyd) :
           /\ Len(heap.nodes[fyn].map) = 3
           /\ \E i, j \in 1..3 :
                  /\ TextPairs(heap, <<heap.nodes[fyn].map[i]>>)
                         = <<<<<<"scalar", tB>>, <<"scalar", t2>>>>>>
                  /\ TextPairs(heap, <<heap.nodes[fyn].map[j]>>)
                         = <<<<<<"scalar", tC>>, <<"scalar", t4>>>>>>

\* the merge pairs of the mapping whose value is not a valid merge value
InvalidMergePairs(h, d, fyn) ==
    {fynp \in Range(h.nodes[fyn].map) :
         fy_node_pair_is_merge_key(h, fynp) /\ ~fy_node_pair_is_valid_merge_key(h, d, fynp)}

Holder(h, d, fyn) ==
    LET hs == {n \in DocNodes(h, d) :
                   \/ /\ h.nodes[n].type = "sequence"
                      /\ fyn \in Range(h.nodes[n].seq)
                   \/ /\ h.nodes[n].type = "mapping"
                      /\ \E i \in 1..Len(h.nodes[n].map) : h.pairs[h.nodes[n].map[i]].value = fyn}
    IN  IF hs = {} THEN NULL ELSE CHOOSE n \in hs : TRUE

\* a target of fy_node_insert: the root, an item of a sequence, the value of a pair
InsertTarget(h, d, fyn) == fyn = h.docs[d].root \/ Holder(h, d, fyn) # NULL

\* in the new heap n is a deep copy of from, made by this step: the same
\* content on the same tokens, in nodes that are neither nodes of the old
\* document nor nodes of from
IsCopy(n, from) ==
    IF from = NULL THEN n = NULL
    ELSE /\ n # NULL
         /\ Reach(heap', n) \cap (DocNodes(heap, fyd) \cup Reach(heap', from)) = {}
         /\ Content(heap', n) = Content(heap', from)

\* the pairs of ps whose key equals no key of the pairs m, in the order of ps
RECURSIVE PairsNotIn(_, _, _)
PairsNotIn(h, ps, m) ==
    IF ps = <<>> THEN <<>>
    ELSE IF LookupPairIn(h, m, h.pairs[ps[1]].key) # NULL THEN PairsNotIn(h, Tail(ps), m)
    ELSE <<ps[1]>> \o PairsNotIn(h, Tail(ps), m)

\* a step of fy_node_insert with a source, on a target of the document
InsertStep ==
    /\ phase = "built"
    /\ last'.op = "insert"
    /\ last'.arg # NULL
    /\ InsertTarget(heap, fyd, last'.to)

\* the target is replaced, where it is, by a copy of the source
InsertReplaces(to, from) ==
    LET hd == Holder(heap, fyd, to)
    IN  IF to = heap.docs[fyd].root THEN IsCopy(heap'.docs[fyd].root, from)
        ELSE IF heap.nodes[hd].type = "sequence"
             THEN /\ Len(heap'.nodes[hd].seq) = Len(heap.nodes[hd].seq)
                  /\ \A i \in 1..Len(heap.nodes[hd].seq) :
                         IF heap.nodes[hd].seq[i] = to
                         THEN IsCopy(heap'.nodes[hd].seq[i], from)
                         ELSE heap'.nodes[hd].seq[i] = heap.nodes[hd].seq[i]
        ELSE /\ heap'.nodes[hd].map = heap.nodes[hd].map
             /\ \A i \in 1..Len(heap.nodes[hd].map) :
                    LET fynp == heap.nodes[hd].map[i]
                    IN  /\ heap'.pairs[fynp].key = heap.pairs[fynp].key
                        /\ IF heap.pairs[fynp].value = to
                           THEN IsCopy(heap'.pairs[fynp].value, from)
                           ELSE heap'.pairs[fynp].value = heap.pairs[fynp].value

\* copies of the items of the source follow the items of the target
InsertAppends(to, from) ==
    LET old == heap.nodes[to].seq
        src == heap'.nodes[from].seq
        new == heap'.nodes[to].seq
    IN  /\ Len(new) = Len(old) + Len(src)
        /\ \A i \in 1..Len(old) :
               new[i] = old[i] /\ Content(heap', old[i]) = Content(heap, old[i])
        /\ \A j \in 1..Len(src) : IsCopy(new[Len(old) + j], src[j])

\* a pair of the target whose key a pair of the source has takes a copy of
\* that pair's value; copies of the other pairs of the source follow
InsertMerges(to, from) ==
    LET old == heap.nodes[to].map
        src == heap'.nodes[from].map
        new == heap'.nodes[to].map
        app == PairsNotIn(heap', src, old)
    IN  /\ Len(new) = Len(old) + Len(app)
        /\ \A i \in 1..Len(old) :
               /\ new[i] = old[i]
               /\ heap'.pairs[old[i]].key = heap.pairs[old[i]].key
               /\ IF LookupPairIn(heap', src, heap.pairs[old[i]].key) # NULL
                  THEN IsCopy(heap'.pairs[old[i]].value,
                              heap'.pairs[LookupPairIn(heap', src, heap.pairs[old[i]].key)].value)
                  ELSE /\ heap'.pairs[old[i]].value = heap.pairs[old[i]].value
                       /\ Content(heap', heap.pairs[old[i]].value)
                              = Content(heap, heap.pairs[old[i]].value)
        /\ \A j \in 1..Len(app) :
               /\ IsCopy(heap'.pairs[new[Len(old) + j]].key, heap'.pairs[app[j]].key)
               /\ IsCopy(heap'.pairs[new[Len(old) + j]].value, heap'.pairs[app[j]].value)

\* what fy_node_insert is to do with the target and a source that is not NULL
InsertDone(to, from) ==
    /\ phase' = "built"
    /\ last'.rc = 0
    /\ IF heap.nodes[to].type # heap'.nodes[from].type \/ heap'.nodes[from].type = "scalar"
       THEN InsertReplaces(to, from)
       ELSE IF heap.nodes[to].type = "sequence" THEN InsertAppends(to, from)
       ELSE InsertMerges(to, from)

\* C12: fy_node_insert(to, from), from not NULL: when the types differ or the
\* source is a scalar, a deep copy of the source takes the place of the target
\* in its parent (or as the root); when both are sequences, copies of the
\* source's items are appended in order after the target's items, which are
\* unchanged; when both are mappings, a source pair whose key equals a target
\* key replaces that pair's value in place and the other source pairs are
\* appended in source order.
C12_InsertBySourceType ==
    [][InsertStep => InsertDone(last'.to, last'.arg)]_vars

\* a step of fy_node_insert with a NULL source, on a target of the document
DeleteStep ==
    /\ phase = "built"
    /\ last'.op = "delete"
    /\ InsertTarget(heap, fyd, last'.to)

\* the target is gone: the root is empty, or the sequence has lost the item,
\* or the mapping has lost the pair the target was the value of
Deleted(to) ==
    LET hd == Holder(heap, fyd, to)
    IN  /\ to \notin DocNodes(heap', fyd)
        /\ heap'.nodes[to].freed
        /\ IF to = heap.docs[fyd].root THEN heap'.docs[fyd].root = NULL
           ELSE IF heap.nodes[hd].type = "sequence"
                THEN heap'.nodes[hd].seq = ListDel(heap.nodes[hd].seq, to)
           ELSE heap'.nodes[hd].map
                    = ListDel(heap.nodes[hd].map,
                              InsertFindValuePair(heap, heap.nodes[hd].map, to))

\* C13: fy_node_insert(to, NULL) deletes the target and returns 0, whether the
\* target is the root (the root becomes empty), an item of a sequence (the
\* item is removed) or the value of a pair (the whole pair is removed).
C13_NullSourceDeletes ==
    [][DeleteStep => (phase' = "built" /\ last'.rc = 0 /\ Deleted(last'.to))]_vars

(***************************************************************************)
(* C14: removal of a tag directive                                         *)
(***************************************************************************)
\* a step of fy_document_tag_directive_remove on document last'.to
TagRemoveStep == phase = "api" /\ last'.op = "td_remove"

\* the directives of document d, as [handle, prefix] in list order
Directives(h, d) ==
    [i \in 1..Len(h.docs[d].td) |->
        [handle |-> fy_tag_directive_token_handle(h, h.docs[d].td[i]),
         prefix |-> fy_tag_directive_token_prefix(h, h.docs[d].td[i])]]

\* the position in the list of d of the directive with the handle, 0 for none
DirectiveIndex(h, d, handle) ==
    IF \E i \in 1..Len(h.docs[d].td) : Directives(h, d)[i].handle = handle
    THEN CHOOSE i \in 1..Len(h.docs[d].td) :
             /\ Directives(h, d)[i].handle = handle
             /\ \A j \in 1..(i - 1) : Directives(h, d)[j].handle # handle
    ELSE 0

\* some node that is not freed carries a tag that refers to the directive fyt_td
TagRefersTo(h, fyt_td) ==
    \E n \in 1..Len(h.nodes) :
        /\ ~h.nodes[n].freed
        /\ h.nodes[n].tag # NULL
        /\ h.tokens[h.nodes[n].tag].td = fyt_td

\* the removal is refused: -1, and no directive list changes
RemoveRefused ==
    /\ last'.rc = -1
    /\ \A d \in 1..Len(heap.docs) : heap'.docs[d].td = heap.docs[d].td

\* the removal is done: 0, the directive has left the list of d, the others stay
RemoveDone(d, i) ==
    /\ last'.rc = 0
    /\ heap'.docs[d].td = RemoveAt(heap.docs[d].td, i)
    /\ \A e \in 1..Len(heap.docs) : e # d => heap'.docs[e].td = heap.docs[e].td

\* C14: fy_document_tag_directive_remove returns -1 and leaves the directive
\* list unchanged when the handle is unknown or a tag of a live node still
\* refers to the directive; otherwise it removes the directive and returns 0.
C14_RemoveOnlyUnreferenced ==
    [][TagRemoveStep =>
         LET d == last'.to
             i == DirectiveIndex(heap, d, last'.arg)
         IN  IF i = 0 \/ TagRefersTo(heap, heap.docs[d].td[i])
             THEN RemoveRefused
             ELSE RemoveDone(d, i)]_vars

\* a state in which a removal of !e! was refused in the document whose node
\* was copied and then freed: the copy's tag still holds the directive
C14_Witness ==
    /\ last.op = "td_remove"
    /\ last.arg = hE
    /\ last.rc = -1
    /\ DirectiveIndex(heap, last.to, hE) # 0
    /\ TagRefersTo(heap, heap.docs[last.to].td[DirectiveIndex(heap, last.to, hE)])
    /\ \E n \in 1..Len(heap.nodes) : heap.nodes[n].freed

(***************************************************************************)
(* C15: the anchor list                                                    *)
(***************************************************************************)
\* the entries of the anchor list of d refer to live nodes of d
AnchorsOnLiveNodes(h, d) ==
    \A i \in 1..Len(h.docs[d].anchors) :
        LET fyn == h.docs[d].anchors[i].fyn
        IN  /\ fyn # NULL
            /\ ~h.nodes[fyn].freed
            /\ h.nodes[fyn].fyd = d

\* no node has two entries in the anchor list of d
AnchorsOnDistinctNodes(h, d) ==
    \A i, j \in 1..Len(h.docs[d].anchors) :
        i # j => h.docs[d].anchors[i].fyn # h.docs[d].anchors[j].fyn

TokenCounted(t) ==
    IF t.freed THEN t.refs = 0 /\ t.nunref = t.nref + 1 /\ ~t.stale
    ELSE t.refs = 1 + t.nref - t.nunref /\ t.refs >= 1 /\ ~t.stale

\* the pointers to the token fyt: from live nodes (tag, scalar, start token),
\* from anchor entries, from directive lists and from live tag tokens
TokenHolders(h, fyt) ==
    Cardinality({n \in LiveNodes(h) : h.nodes[n].tag = fyt})
    + Cardinality({n \in LiveNodes(h) : h.nodes[n].scalar = fyt})
    + Cardinality({n \in LiveNodes(h) : h.nodes[n].start = fyt})
    + Cardinality({di \in (1..Len(h.docs)) \X (1..Len(h.tokens)) :
                       /\ di[2] <= Len(h.docs[di[1]].anchors)
                       /\ h.docs[di[1]].anchors[di[2]].anchor = fyt})
    + Cardinality({d \in 1..Len(h.docs) : fyt \in Range(h.docs[d].td)})
    + Cardinality({k \in 1..Len(h.tokens) : ~h.tokens[k].freed /\ h.tokens[k].td = fyt})

\* C16: a token's count is one plus its refs minus its unrefs, it is freed by
\* the unref that finds the count at 1 and never touched again, and the count
\* is the number of pointers held on it: a freed tag token no longer counts on
\* its directive, and a token shared by a node and its copy lives until both
\* are freed.
C16_TokenCounts ==
    phase # "crashed" =>
        \A fyt \in 1..Len(heap.tokens) :
            /\ TokenCounted(heap.tokens[fyt])
            /\ heap.tokens[fyt].refs = TokenHolders(heap, fyt)

\* a state after the free of a node, in which a tag token that a node and its
\* copy had shared is freed and its directive has been released
C16_Witness ==
    /\ last.op = "free"
    /\ \E fyt \in 1..Len(heap.tokens) :
           /\ heap.tokens[fyt].type = "TAG"
           /\ heap.tokens[fyt].freed
           /\ heap.tokens[fyt].nref >= 1
           /\ heap.tokens[heap.tokens[fyt].td].nunref >= 1
           /\ ~heap.tokens[heap.tokens[fyt].td].freed

(***************************************************************************)
(* C17: a failed load with and without FYPCF_COLLECT_DIAG                  *)
(***************************************************************************)
\* the state after a build whose parser was set up and whose load of the
\* document failed (the load is run again on the input to tell)
BuildLoadFailed ==
    /\ phase # "crashed"
    /\ last.op = "build_internal"
    /\ last.arg.setup = 0
    /\ fy_parse_load_document(EmptyHeap, input, last.arg.resolve_document).fyd = NULL

\* the document of the claim: returned, flagged, without a root, with the log
BuildGaveErrorDocument ==
    /\ fyd # NULL
    /\ fy_document_has_error(heap, fyd)
    /\ heap.docs[fyd].root = NULL
    /\ heap.docs[fyd].errbuf # <<>>

\* C17: when the load of the document fails, a build with FYPCF_COLLECT_DIAG
\* returns a document whose has-error flag is true, whose root is empty and
\* which carries the diagnostics, and a build without the flag returns NULL
C17_CollectDiagGivesDocument ==
    BuildLoadFailed =>
        IF last.to THEN BuildGaveErrorDocument ELSE fyd = NULL

\* what the build does: a failed load gives NULL with or without the flag
C17_FailedLoadGivesNull ==
    BuildLoadFailed => fyd = NULL /\ last.rc = -1

C17_Witness ==
    /\ BuildLoadFailed
    /\ input # EmptyStream
    /\ last.to
    /\ fyd = NULL
    /\ heap.diag # <<>>

(***************************************************************************)
(* C18: where the sequence calls put and take a node                       *)
(***************************************************************************)
\* the list without x
ListWithout(s, x) == LET other(y) == y # x IN SelectSeq(s, other)

\* a step of the call op that succeeded on the sequence last'.to
SeqStep(op) ==
    /\ last'.op = op
    /\ ~heap'.crashed
    /\ last'.to # NULL
    /\ heap.nodes[last'.to].type = "sequence"

SeqBefore == heap.nodes[last'.to].seq
SeqAfter == heap'.nodes[last'.to].seq
SeqMark == last'.arg[1]
SeqNode == last'.arg[2]

\* the node is in the list once, the others are the old list, and the node's
\* parent is the sequence
SeqInserted ==
    /\ ListWithout(SeqAfter, SeqNode) = SeqBefore
    /\ Len(SeqAfter) = Len(SeqBefore) + 1
    /\ heap'.nodes[SeqNode].parent = last'.to

SeqPlaced ==
    /\ SeqStep("seq_append") /\ last'.rc = 0 =>
           SeqInserted /\ IndexOf(SeqAfter, SeqNode) = Len(SeqAfter)
    /\ SeqStep("seq_prepend") /\ last'.rc = 0 =>
           SeqInserted /\ IndexOf(SeqAfter, SeqNode) = 1
    /\ SeqStep("seq_insert_before") /\ SeqMark # NULL /\ last'.rc = 0 =>
           SeqInserted /\ IndexOf(SeqAfter, SeqNode) + 1 = IndexOf(SeqAfter, SeqMark)
    /\ SeqStep("seq_insert_after") /\ SeqMark # NULL /\ last'.rc = 0 =>
           SeqInserted /\ IndexOf(SeqAfter, SeqNode) = IndexOf(SeqAfter, SeqMark) + 1

SeqTaken ==
    SeqStep("seq_remove") /\ last'.rc # NULL =>
        /\ last'.rc = SeqNode
        /\ SeqNode \in Range(SeqBefore)
        /\ SeqAfter = ListWithout(SeqBefore, SeqNode)
        /\ Len(SeqAfter) = Len(SeqBefore) - 1
        /\ heap'.nodes[SeqNode].parent = NULL

AtIndex(s, i) ==
    IF 0 <= i /\ i < Len(s) THEN s[i + 1]
    ELSE IF -Len(s) <= i /\ i < 0 THEN s[Len(s) + i + 1]
    ELSE NULL

\* C19: fy_node_sequence_get_by_index on a sequence of n items returns item i
\* for 0 <= i < n, item n+i for -n <= i < 0 and NULL otherwise, and
\* fy_node_mapping_get_by_index does the same over the pairs of a mapping
C19_GetByIndex ==
    /\ last.op = "seq_get_by_index" /\ last.to # NULL
       /\ heap.nodes[last.to].type = "sequence" =>
           last.rc = AtIndex(heap.nodes[last.to].seq, last.arg)
    /\ last.op = "map_get_by_index" /\ last.to # NULL
       /\ heap.nodes[last.to].type = "mapping" =>
           last.rc = AtIndex(heap.nodes[last.to].map, last.arg)

\* the index -2 gave the second of three items after an item was prepended
C19_Witness ==
    /\ last.op = "seq_get_by_index"
    /\ last.to # NULL
    /\ heap.nodes[last.to].type = "sequence"
    /\ Len(heap.nodes[last.to].seq) = 3
    /\ last.arg = -2
    /\ last.rc = heap.nodes[last.to].seq[2]
    /\ ops > 1

(***************************************************************************)
(* C20: the item count of what is not a sequence                           *)
(***************************************************************************)
\* C20: fy_node_sequence_item_count returns the number of items of a sequence
\* and -1 for NULL or a node that is not a sequence, as
\* fy_node_mapping_item_count returns -1 for NULL or what is not a mapping
C20_ItemCountOrMinusOne ==
    /\ last.op = "seq_item_count" =>
           last.rc = IF last.to # NULL /\ heap.nodes[last.to].type = "sequence"
                     THEN Len(heap.nodes[last.to].seq) ELSE -1
    /\ last.op = "map_item_count" /\ (last.to = NULL \/ heap.nodes[last.to].type # "mapping") =>
           last.rc = -1

\* what the code does: 0 for NULL and for what is not a sequence
C20_ItemCountOrZero ==
    last.op = "seq_item_count" =>
        last.rc = IF last.to # NULL /\ heap.nodes[last.to].type = "sequence"
                  THEN Len(heap.nodes[last.to].seq) ELSE 0

C20_Witness ==
    /\ last.op = "seq_item_count"
    /\ last.to # NULL
    /\ heap.nodes[last.to].type = "mapping"
    /\ last.rc = 0

(***************************************************************************)
(* C21: an anchor name is registered once per document                     *)
(***************************************************************************)
\* the positions of the events of the input that put an anchor on a node
AnchorEvents ==
    {i \in 1..Len(input) : input[i].type # "ALIAS" /\ input[i].anchor # <<>>}

InputRepeatsAnchor ==
    \E i, j \in AnchorEvents : i # j /\ input[i].anchor = input[j].anchor

\* the state a build has just left, the parser having been set up
JustBuilt ==
    /\ last.op = "build_internal"
    /\ last.arg.setup = 0
    /\ phase # "crashed"

AnchorNamesDistinct(h, d) ==
    \A i, j \in 1..Len(h.docs[d].anchors) :
        i # j => fy_token_get_text(h, h.docs[d].anchors[i].anchor)
                 # fy_token_get_text(h, h.docs[d].anchors[j].anchor)

\* the registration x of a name refused: -1, 'duplicate anchor' reported, the
\* anchor list of d as it was in h
RegisterRefused(h, d, x) ==
    /\ x.r = -1
    /\ x.h.diag # <<>>
    /\ x.h.diag[Len(x.h.diag)].msg = "duplicate anchor"
    /\ x.h.docs[d].anchors = h.docs[d].anchors

\* every name on the list of the built document is refused for any node
RegisteredNamesRefused ==
    \A i \in 1..Len(heap.docs[fyd].anchors), fyn \in DocNodes(heap, fyd) :
        RegisterRefused(heap, fyd,
            fy_parse_document_register_anchor(heap, fyd, fyn, heap.docs[fyd].anchors[i].anchor))

RECURSIVE PathReach(_, _)
PathReach(h, fyn) ==
    IF fyn = NULL THEN {}
    ELSE {fyn}
         \cup (IF h.nodes[fyn].type = "sequence"
               THEN UNION {PathReach(h, h.nodes[fyn].seq[i]) : i \in 1..Len(h.nodes[fyn].seq)}
               ELSE {})
         \cup (IF h.nodes[fyn].type = "mapping"
               THEN UNION {PathReach(h, h.pairs[h.nodes[fyn].map[i]].value) :
                               i \in 1..Len(h.nodes[fyn].map)}
               ELSE {})

\* the items and the values of fyn have fyn as their parent
KidsPointBack(h, fyn) ==
    /\ h.nodes[fyn].type = "sequence" =>
           \A i \in 1..Len(h.nodes[fyn].seq) : h.nodes[h.nodes[fyn].seq[i]].parent = fyn
    /\ h.nodes[fyn].type = "mapping" =>
           \A i \in 1..Len(h.nodes[fyn].map) :
               h.pairs[h.nodes[fyn].map[i]].value # NULL =>
                   h.nodes[h.pairs[h.nodes[fyn].map[i]].value].parent = fyn

ParentsResolved(h, d) ==
    \A fyn \in PathReach(h, h.docs[d].root) : KidsPointBack(h, fyn)

InsertCall == last'.op \in {"insert", "insert_at"}

\* C22: after successful fy_node_insert / fy_document_insert_at calls on a
\* built document every node found by path below the root has its sequence or
\* mapping as parent, and the assertion of fy_node_insert on a target found
\* by path never fails
C22_ParentsAfterInsert ==
    [][/\ InsertCall /\ last'.rc = 0 /\ ~heap'.crashed => ParentsResolved(heap', fyd)
       /\ InsertCall /\ last'.to \in PathReach(heap, heap.docs[fyd].root) => ~heap'.crashed]_vars

\* what holds: the built document has its parents resolved, and an insert
\* keeps the parents of the nodes it did not make
C22_ParentsAfterBuild ==
    phase = "built" /\ ops = 0 => ParentsResolved(heap, fyd)

\* a successful insert left a node below the root without its parent
C22_Witness ==
    /\ phase = "built"
    /\ last.op = "insert"
    /\ last.rc = 0
    /\ ops = 1
    /\ ~ParentsResolved(heap, fyd)

\* the second insert, on a target found by path, failed the assertion
C22_WitnessAssert ==
    /\ phase = "crashed"
    /\ last.op = "insert"
    /\ ops = 2

(***************************************************************************)
(* C23: a document only from one well-nested node and a DOCUMENT-END       *)
(***************************************************************************)
\* the position after the well-nested node that starts at pos, 0 if there is none
RECURSIVE NodeEndsAt(_, _)
RECURSIVE ItemsEndAt(_, _)
RECURSIVE PairsEndAt(_, _)
NodeEndsAt(evs, pos) ==
    IF pos = 0 \/ pos > Len(evs) THEN 0
    ELSE IF evs[pos].type \in {"SCALAR", "ALIAS"} THEN pos + 1
    ELSE IF evs[pos].type = "SEQUENCE_START" THEN ItemsEndAt(evs, pos + 1)
    ELSE IF evs[pos].type = "MAPPING_START" THEN PairsEndAt(evs, pos + 1)
    ELSE 0

ItemsEndAt(evs, pos) ==
    IF pos = 0 \/ pos > Len(evs) THEN 0
    ELSE IF evs[pos].type = "SEQUENCE_END" THEN pos + 1
    ELSE ItemsEndAt(evs, NodeEndsAt(evs, pos))

\* every key is followed by a value
PairsEndAt(evs, pos) ==
    IF pos = 0 \/ pos > Len(evs) THEN 0
    ELSE IF evs[pos].type = "MAPPING_END" THEN pos + 1
    ELSE PairsEndAt(evs, NodeEndsAt(evs, NodeEndsAt(evs, pos)))

\* after the DOCUMENT-START: one well-nested node, then DOCUMENT-END
WellNested(evs, start) ==
    /\ start <= Len(evs)
    /\ evs[start].type = "DOCUMENT_START"
    /\ NodeEndsAt(evs, start + 1) # 0
    /\ NodeEndsAt(evs, start + 1) <= Len(evs)
    /\ evs[NodeEndsAt(evs, start + 1)].type = "DOCUMENT_END"

InputWellNested == WellNested(input, SkipStreamStart(input, 1))

\* nothing of a document is left: every document destroyed, every node freed
NothingBuilt ==
    /\ \A d \in 1..Len(heap.docs) : heap.docs[d].destroyed
    /\ \A n \in 1..Len(heap.nodes) : heap.nodes[n].freed

\* C23: fy_parse_load_document returns a document only if the events after
\* DOCUMENT-START are one well-nested node followed by DOCUMENT-END; when the
\* events stop before that or an unexpected event appears it returns NULL
\* and leaves no partly built document
C23_LoadWellNestedOrNull ==
    last.op = "build" =>
        /\ fyd # NULL => InputWellNested
        /\ ~InputWellNested => phase = "failed" /\ fyd = NULL /\ NothingBuilt

\* what holds: a document only for a well-nested input, and a NULL with
\* nothing left whenever the load returns at all
C23_DocumentOnlyIfWellNested ==
    last.op = "build" =>
        /\ fyd # NULL => InputWellNested
        /\ ~InputWellNested /\ phase # "crashed" => fyd = NULL /\ NothingBuilt

\* a wrong event where a mapping key is expected: the load does not return
C23_Witness ==
    /\ last.op = "build"
    /\ phase = "crashed"
    /\ uninit = "stray"
    /\ ~InputWellNested
    /\ \E i \in 1..Len(input) : input[i].type = "MAPPING_START"

(***************************************************************************)
(* C24: the resolver ends, and what it creates is bounded                  *)
(***************************************************************************)
RECURSIVE Pow2(_)
Pow2(n) == IF n = 0 THEN 1 ELSE 2 * Pow2(n - 1)

\* an anchor of the document sits on a node that holds an alias to it
SelfReferring(h, d) ==
    \E i \in 1..Len(h.docs[d].anchors) :
        \E n \in Reach(h, h.docs[d].anchors[i].fyn) :
            /\ fy_node_is_alias(h, n)
            /\ fy_token_get_text(h, h.nodes[n].scalar)
               = fy_token_get_text(h, h.docs[d].anchors[i].anchor)

\* C24: fy_document_resolve terminates on every finite document, also when an
\* alias or a merge value refers to an anchor on one of its own ancestors, and
\* creates finitely many nodes: a call returns, having at most doubled the
\* nodes and the pairs once per alias of the document
C24_ResolveBounded ==
    [][last'.op = "resolve" /\ ~heap'.crashed =>
          /\ phase' \in {"built", "failed"}
          /\ Len(heap'.nodes) <= Len(heap.nodes) * Pow2(Cardinality(DocAliases(heap, fyd)))
          /\ Len(heap'.pairs) <= Len(heap.pairs) * Pow2(Cardinality(DocAliases(heap, fyd)))]_vars

\* `&a [*a]` resolved: the alias is now a copy of the sequence as it was
C24_Witness ==
    /\ last.op = "resolve"
    /\ last.rc = 0
    /\ ops = 1
    /\ input = Stream(YAnchor(tA, YSeq(<<YAlias(tA)>>)))
    /\ Len(heap.nodes) = 4
    /\ SelfReferring(heap, fyd)

(***************************************************************************)
(* C25: the editing calls with a bad argument                              *)
(***************************************************************************)
\* the lists of every sequence and mapping
AllLists(h) == [n \in 1..Len(h.nodes) |-> <<h.nodes[n].seq, h.nodes[n].map>>]

EditCall == last'.op \in {"seq_insert_before", "seq_insert_after", "seq_remove", "map_remove"}

\* the container of the call is NULL or of the wrong type
EditBadContainer ==
    \/ last'.to = NULL
    \/ /\ last'.to # NULL
       /\ heap.nodes[last'.to].type # (IF last'.op = "map_remove" THEN "mapping" ELSE "sequence")

\* the mark, the item or the pair of the call
EditMember == IF last'.op = "seq_remove" \/ last'.op = "map_remove" THEN last'.arg[2] ELSE last'.arg[1]

\* the mark, item or pair is NULL or is not in the list of the container
EditBadMember ==
    \/ EditMember = NULL
    \/ /\ last'.to # NULL
       /\ EditMember \notin Range(IF last'.op = "map_remove" THEN heap.nodes[last'.to].map
                                   ELSE heap.nodes[last'.to].seq)

\* the error value of the call: NULL from fy_node_sequence_remove, else -1
EditRefused ==
    /\ ~heap'.crashed
    /\ last'.rc = (IF last'.op = "seq_remove" THEN NULL ELSE -1)
    /\ AllLists(heap') = AllLists(heap)

\* C25: fy_node_sequence_insert_before, fy_node_sequence_insert_after,
\* fy_node_sequence_remove and fy_node_mapping_remove return the error value
\* and change no sequence and no mapping when the container is NULL or of the
\* wrong type, or the mark, item or pair is NULL or not in that container.
C25_BadArgumentsRefused ==
    [][EditCall /\ (EditBadContainer \/ EditBadMember) => EditRefused]_vars

\* C25, the part the code keeps: with a container of the right type, a mark,
\* item or pair that is not NULL and not in it makes the call return the error
\* value and change nothing.
C25_StrangerRefused ==
    [][EditCall /\ ~EditBadContainer /\ EditMember # NULL /\ EditBadMember => EditRefused]_vars

\* fy_node_sequence_remove named a mapping as the container and an item of the
\* root sequence as the node: the item was returned and has left the root
C25_Witness ==
    /\ last.op = "seq_remove"
    /\ last.to # NULL
    /\ heap.nodes[last.to].type = "mapping"
    /\ last.rc = last.arg[2]
    /\ last.rc # NULL
    /\ ~heap.crashed
    /\ Len(heap.nodes[heap.docs[fyd].root].seq) = MaxItems

(***************************************************************************)
(* C26: the parent relation between documents                              *)
(***************************************************************************)
\* the document n steps up the parent pointers from d, NULL past the top
RECURSIVE DocUp(_, _, _)
DocUp(h, d, n) ==
    IF d = NULL \/ n = 0 THEN d ELSE DocUp(h, h.docs[d].parent, n - 1)

\* no live document is its own parent or ancestor
DocParentsAcyclic(h) ==
    \A d \in LiveDocs(h) : \A n \in 1..Len(h.docs) : DocUp(h, d, n) # d

\* the number of places that hold c in the list cs
RECURSIVE CountIn(_, _)
CountIn(cs, c) ==
    IF cs = <<>> THEN 0 ELSE (IF cs[1] = c THEN 1 ELSE 0) + CountIn(Tail(cs), c)

\* a live document is held in the children lists once if it has a parent, in
\* the list of that parent, and in none if it has no parent
DocSingleParent(h) ==
    \A c \in LiveDocs(h) : \A d \in LiveDocs(h) :
        CountIn(h.docs[d].children, c) = (IF h.docs[c].parent = d THEN 1 ELSE 0)

\* C26: after any fy_document_set_parent calls no document is its own parent
\* or ancestor and each document is in the children list of at most one
\* document, and fy_document_destroy, which recurses over the children,
\* returns.
C26_DocumentParentsAcyclic ==
    /\ DocParentsAcyclic(heap)
    /\ DocSingleParent(heap)
    /\ ~heap.crashed

\* C26, the part the code keeps: each document is in the children list of at
\* most one document, the one its parent pointer names
C26_SingleParent == DocSingleParent(heap)

\* C26, the part the code keeps: a fy_document_set_parent that returns -1
\* changes nothing, and it returns -1 for a child that has a parent
C26_RefusedChangesNothing ==
    [][last'.op = "set_parent" =>
          /\ last'.rc = -1 => heap' = heap
          /\ last'.arg # NULL /\ heap.docs[last'.arg].parent # NULL => last'.rc = -1]_vars

\* two documents were made each other's parent, and the destroy of one of
\* them did not return
C26_Witness ==
    /\ last.op = "doc_destroy"
    /\ heap.crashed
    /\ heap.docs[last.to].parent # NULL
    /\ heap.docs[last.to].parent # last.to
    /\ heap.docs[heap.docs[last.to].parent].parent = last.to

(***************************************************************************)
(* C27: the tags of what fy_node_insert copies from another document       *)
(***************************************************************************)
\* every tag carried by a node of document d refers to a directive that is in
\* the directive list of d
TagsInOwnList(h, d) ==
    \A n \in DocNodes(h, d) :
        h.nodes[n].tag # NULL => h.tokens[h.nodes[n].tag].td \in Range(h.docs[d].td)

\* a fy_node_insert, of a node of another document, that returned 0
CrossInsertDone ==
    /\ last'.op = "insert"
    /\ last'.rc = 0
    /\ ~heap'.crashed
    /\ last'.arg # NULL
    /\ heap.nodes[last'.arg].fyd # heap.nodes[last'.to].fyd

\* the insert was a replacement: the types differ, or the source is a scalar
CrossInsertReplaced ==
    \/ heap.nodes[last'.arg].type # heap.nodes[last'.to].type
    \/ heap.nodes[last'.arg].type = "scalar"

\* C27: after a successful fy_node_insert of a node of another document, every
\* tag carried by a node of the target document, the copied ones included,
\* refers to a tag directive that is in the target document's list, whether
\* the target was replaced, appended to or merged into.
C27_CopiedTagsInTargetList ==
    [][CrossInsertDone /\ TagsInOwnList(heap, heap.nodes[last'.to].fyd)
          => TagsInOwnList(heap', heap.nodes[last'.to].fyd)]_vars

\* C27, the part the code keeps: it holds when sequence items were appended or
\* mapping pairs were merged
C27_AppendedTagsInTargetList ==
    [][CrossInsertDone /\ ~CrossInsertReplaced
          /\ TagsInOwnList(heap, heap.nodes[last'.to].fyd)
          => TagsInOwnList(heap', heap.nodes[last'.to].fyd)]_vars

\* a scalar root was replaced by the tagged scalar of the other document, and
\* the tag of the copy refers to a directive of that other document
C27_Witness ==
    /\ last.op = "insert"
    /\ last.rc = 0
    /\ ~heap.crashed
    /\ ops = 1
    /\ heap.docs[2].root # NULL
    /\ heap.nodes[heap.docs[2].root].type = "scalar"
    /\ heap.nodes[heap.docs[2].root].tag # NULL
    /\ heap.tokens[heap.nodes[heap.docs[2].root].tag].td \in Range(heap.docs[1].td)
    /\ ~TagsInOwnList(heap, 2)

\* the items of a sequence with a tagged item were appended to the sequence of
\* the other document, which now holds the directive and a tagged item
C27_WitnessAppended ==
    /\ last.op = "insert"
    /\ last.rc = 0
    /\ ~heap.crashed
    /\ ops = 1
    /\ heap.nodes[last.to].fyd = 2
    /\ heap.nodes[last.to].type = "sequence"
    /\ Len(heap.nodes[last.to].seq) = 2
    /\ heap.nodes[heap.nodes[last.to].seq[2]].tag # NULL
    /\ TagsInOwnList(heap, 2)

(***************************************************************************)
(* C28: what a successful resolve leaves                                   *)
(***************************************************************************)
\* the nodes of alias style in document d
AliasesLeft(h, d) == {n \in DocNodes(h, d) : fy_node_is_alias(h, n)}

\* C28: after fy_document_resolve returned 0 on a built document, no node of
\* alias style is left in the document, the subtrees copied in place of
\* aliases and the pairs merged in from merge keys included.
C28_NoAliasLeft ==
    last.op = "resolve" /\ last.rc = 0 /\ phase = "built" => AliasesLeft(heap, fyd) = {}

(***************************************************************************)
(* C29: the order of the pairs a merge copies                              *)
(***************************************************************************)
\* the pairs of the mappings that the merge pair of fyn refers to, reference
\* after reference, each in the order of its mapping
MergeCandidates(fyn) ==
    SourcePairs(heap, MergeSources(heap, fyd,
                                   heap.pairs[heap.nodes[fyn].map[MergeIndex(heap, fyn)]].value))

\* the place among the candidates cands of the first pair with the key of the
\* copy fynpn, 0 for none
SourcePlace(cands, fynpn) ==
    IF \E p \in 1..Len(cands) :
           Text(heap, heap.pairs[cands[p]].key) = Text(heap', heap'.pairs[fynpn].key)
    THEN CHOOSE p \in 1..Len(cands) :
             /\ Text(heap, heap.pairs[cands[p]].key) = Text(heap', heap'.pairs[fynpn].key)
             /\ \A q \in 1..(p - 1) :
                    Text(heap, heap.pairs[cands[q]].key) # Text(heap', heap'.pairs[fynpn].key)
    ELSE 0

\* the places in the list n that hold a pair made by the step
CopiedPlaces(n) == {j \in 1..Len(n) : n[j] > Len(heap.pairs)}

\* the copies stand in n in the order of their sources
CopiesInSourceOrder(cands, n) ==
    \A j1 \in CopiedPlaces(n), j2 \in CopiedPlaces(n) :
        j1 < j2 => SourcePlace(cands, n[j1]) < SourcePlace(cands, n[j2])

\* the copies stand in n in the reverse of the order of their sources
CopiesInReverseOrder(cands, n) ==
    \A j1 \in CopiedPlaces(n), j2 \in CopiedPlaces(n) :
        j1 < j2 => SourcePlace(cands, n[j1]) > SourcePlace(cands, n[j2])

\* C29: when a merge pair is resolved, the pairs copied from a mapping M stand
\* in the target in the same relative order as in M, and with a sequence of
\* references the pairs of an earlier reference stand before those of a later one.
C29_MergedKeepSourceOrder ==
    [][ResolveStep =>
           \A fyn \in DocMappings(heap, fyd) :
               MergeTarget(fyn) =>
                   CopiesInSourceOrder(MergeCandidates(fyn), heap'.nodes[fyn].map)]_vars

\* C29 as the code has it: each copy is linked directly after the merge pair,
\* in front of the copies made before it, so the pairs copied from M stand in
\* the reverse of their order in M, and the pairs of a later reference stand
\* before those of an earlier one.
C29_MergedInReverseOrder ==
    [][ResolveStep =>
           \A fyn \in DocMappings(heap, fyd) :
               MergeTarget(fyn) =>
                   CopiesInReverseOrder(MergeCandidates(fyn), heap'.nodes[fyn].map)]_vars

\* {<<: [*d, *e]} with d = {a: 1, b: 2} and e = {b: 5, c: 4} has become
\* {c: 4, b: 2, a: 1}
C29_Witness ==
    /\ phase = "built"
    /\ last.op = "resolve"
    /\ last.rc = 0
    /\ \E fyn \in DocMappings(heap, fyd) :
           Text(heap, fyn) = <<"mapping", <<<<<<"scalar", tC>>, <<"scalar", t4>>>>,
                                            <<<<"scalar", tB>>, <<"scalar", t2>>>>,
                                            <<<<"scalar", tA>>, <<"scalar", t1>>>>>>>>

(***************************************************************************)
(* C30: the anchors of what fy_document_insert_at is given                 *)
(***************************************************************************)
\* the names that the anchor list of d registers on nodes of the set ns
AnchorNamesOn(h, d, ns) ==
    {fy_token_get_text(h, h.docs[d].anchors[i].anchor) :
         i \in {j \in 1..Len(h.docs[d].anchors) : h.docs[d].anchors[j].fyn \in ns}}

\* the step was fy_document_insert_at of the source b.r, built into the
\* document as the heap b.h has it, at fyn_to, and it returned 0
InsertAtDone(b, fyn_to) ==
    /\ b.r # NULL
    /\ last'.op = "insert_at"
    /\ last'.rc = 0
    /\ last'.to = fyn_to
    /\ last'.arg = b.r
    /\ ~heap'.crashed
    /\ heap' = (fy_document_insert_at(fy_node_insert(b.h, fyn_to, b.r), b.r)).h

\* every name registered on the source or below it is registered, after the
\* step, on a node of the document that the step made
InsertAtKeepsAnchors(b) ==
    AnchorNamesOn(b.h, fyd, Reach(b.h, b.r))
        \subseteq AnchorNamesOn(heap', fyd,
                                {n \in DocNodes(heap', fyd) : n > Len(b.h.nodes)})

\* C30: after a successful fy_document_insert_at of a source built in the same
\* document, an anchor that the source carries, on itself or below, is still
\* registered in the document, on a node of the inserted copy.
C30_InsertAtKeepsAnchors ==
    [][\A fyn_to \in DocNodes(heap, fyd), y \in FragmentsAnchored :
           \A b \in {fy_document_load_node(heap, fyd, Stream(y))} :
               InsertAtDone(b, fyn_to) => InsertAtKeepsAnchors(b)]_vars

\* C30, what the code does: after the step no name that the source carried is
\* registered in the document
C30_InsertAtDropsAnchors ==
    [][\A fyn_to \in DocNodes(heap, fyd), y \in FragmentsAnchored :
           \A b \in {fy_document_load_node(heap, fyd, Stream(y))} :
               InsertAtDone(b, fyn_to) =>
                   AnchorNamesOn(b.h, fyd, Reach(b.h, b.r))
                       \cap AnchorNamesOn(heap', fyd, 1..Len(heap'.nodes)) = {}]_vars

\* `&c a` was inserted: the call returned 0, the document holds the copy, the
\* source is freed and no anchor of the document is named c
C30_Witness ==
    /\ phase = "built"
    /\ last.op = "insert_at"
    /\ last.rc = 0
    /\ last.arg # NULL
    /\ heap.nodes[last.arg].freed
    /\ \E n \in DocNodes(heap, fyd) : n > last.arg /\ Text(heap, n) = <<"scalar", tA>>
    /\ tC \notin AnchorNamesOn(heap, fyd, 1..Len(heap.nodes))

====
